---- MODULE Spec2Model ----
(***************************************************************************)
(* Model of the envoy-client resource interface                            *)
(* (src/envoy_client/interface.py): the device registration sequence       *)
(* sync_end_device, the paged device listing get_paged_end_devices and     *)
(* get_end_devices, and the other operations of the interface, with the    *)
(* server as the environment that chooses every response (Spec); of the    *)
(* session handling of RequestsTransport (TransportSpec); and of the       *)
(* construction of the data models and the lfdi helpers (ModelSpec).       *)
(*                                                                         *)
(* A path is the sequence of its '/'-delimited segments, every segment a   *)
(* string: f"/edev/{edev_id}/di" is <<"edev", ToString(edev_id), "di">>.   *)
(* A response is [status_code, headers, content]; headers is a set of      *)
(* <<name, value>> pairs, the value of location being a path.              *)
(***************************************************************************)
EXTENDS Integers, Sequences, FiniteSets, TLC

\* ------------------------------------------------------------------ bounds
MaxDers == 2        \* longest DER list of a device
MaxDevices == 3     \* most devices the server holds
MaxStart == 1       \* largest initial start offset of a paged listing
MaxPageSize == 2    \* largest page_size / limit
MaxBatch == 2       \* longest device list given to sync_end_devices
MaxSessions == 3    \* most Session objects one transport creates
MaxZeros == 8       \* longest run of zero digits inside an lfdi
MaxChars == 5       \* longest string given to get_local_lfdi_from_string
MaxSends == 3       \* most requests sent through one transport
MaxMembers == 7     \* most members of a flag type (RoleFlagsType has seven)

\* Python's None for an Optional[int] argument.
None == -1

\* The resource ids the server hands out in location headers.
ServerIds == {3, 5}
\* The integers int() can read back from one path segment of the model.
IdRange == 0..9 \cup {42}

\* lfdi strings: the interface's own and two others.
SelfLfdi == "0x3e8"
Lfdis == {SelfLfdi, "0x7d0", "0xbb8"}

\* ------------------------------------------------------------ typed objects
\* An EndDevice as sync_end_device reads it: device_information and
\* connection_point are present or None; der is None (der_set = FALSE) or a
\* list of DER, each with a der_capability present or None.
DERs == [der_capability : BOOLEAN]

DerLists == UNION {[1..n -> DERs] : n \in 0..MaxDers}

EndDevices ==
    {[device_information |-> di, der_set |-> ds, der |-> dl, connection_point |-> cp] :
        di \in BOOLEAN, ds \in BOOLEAN, dl \in DerLists, cp \in BOOLEAN}

ValidEndDevices == {d \in EndDevices : ~d.der_set => d.der = <<>>}

\* ---------------------------------------------------------------- responses
NoContent == [root |-> "", attrs |-> FALSE, children |-> <<>>]

NoHeaders == {}

LocationHeader(path) == {<<"location", path>>}

Response(status, headers, content) ==
    [status_code |-> status, headers |-> headers, content |-> content]

\* What a server may answer to a POST on `path`: one of `statuses`, and either no
\* location header, a location that is the path extended by a new id, or a
\* location with a trailing slash (an empty last segment).
PostResponses(path, statuses) ==
    {Response(s, h, NoContent) :
        s \in statuses,
        h \in {NoHeaders, LocationHeader(path \o <<"">>)}
              \cup {LocationHeader(path \o <<ToString(i)>>) : i \in ServerIds}}

\* POST /edev: created, a success that is no creation, or a client error.
CreateStatuses == {200, 201, 400}

\* POST /edev/{id}/der: created or refused.
NestedStatuses == {201, 400}

PutResponses == {Response(s, NoHeaders, NoContent) : s \in {200, 400}}

\* GET /edev/{id}: the device document, a 200 whose document has another root
\* element, or a 404 with an error document.
GetDeviceResponses ==
    {Response(200, NoHeaders, [root |-> r, attrs |-> FALSE, children |-> <<>>]) :
        r \in {"EndDevice", "Error"}}
    \cup {Response(404, NoHeaders, [root |-> "Error", attrs |-> FALSE, children |-> <<>>])}

\* What a server may answer to GET /edev/{id} when get_end_device is called on
\* its own: any of these statuses, with a device document or an error document.
DeviceStatuses == {200, 201, 204, 404, 500}

DeviceResponses ==
    {Response(s, NoHeaders, [root |-> r, attrs |-> FALSE, children |-> <<>>]) :
        s \in DeviceStatuses, r \in {"EndDevice", "Error"}}

\* The responses trailing_resource_id_from_response is handed: any status, and
\* no header, a header that is not location, a location ending in an id (the
\* default of MockResponse among them) or ending in '/'.
LocatedStatuses == {200, 201, 400}

LocatedHeaders ==
    {NoHeaders,
     {<<"content-type", <<"application", "xml">>>>},
     LocationHeader(<<"edev", "42">>),
     LocationHeader(<<"edev", "42">>) \cup {<<"content-type", <<"application", "xml">>>>},
     LocationHeader(<<"mock", "location", "1">>),
     LocationHeader(<<"edev", "">>)}

LocatedResponses == {Response(s, h, NoContent) : s \in LocatedStatuses, h \in LocatedHeaders}

Request(method, path, query) == [method |-> method, path |-> path, query |-> query]

Exchange(req, resp) == [request |-> req, response |-> resp]

\* ------------------------------------------------------------------- state
VARIABLES
    op,              \* the operation the caller is running, "none" between calls
    pc,              \* position of the running operation
    raised,          \* "none", or the exception the operation ended with
    log,             \* the exchanges of the running operation, in order
    end_device,      \* sync_end_device: argument end_device
    arg_edev_id,     \* sync_end_device: argument edev_id (None or an id)
    create_nested,   \* sync_end_device: argument create_nested
    edev_id,         \* sync_end_device: local edev_id
    der_idx,         \* sync_end_device: position of the for loop over der
    der_id,          \* sync_end_device: local der_id
    server_devices,  \* the lfdi of every device the server holds, in order
    include_self,    \* listing: argument include_self
    start0,          \* listing: argument start
    page_size,       \* listing: argument page_size / limit
    start,           \* get_paged_end_devices: local start
    result,          \* get_paged_end_devices: local result / return value
    yielded,         \* get_paged_end_devices: the pages yielded so far
    arg_response,    \* trailing_resource_id_from_response: argument response
    resource_id,     \* trailing_resource_id_from_response: the id it returned
    end_devices,     \* sync_end_devices: argument end_devices, the lfdi of each device
    create_der,      \* sync_end_devices: argument create_der
    abort_on_error,  \* sync_end_devices: argument abort_on_error
    posted,          \* sync_end_devices: the device of each document posted, in order
    auth,            \* transport: "absent" before construction, else the kind of self.auth
    is_connected,    \* transport: self.is_connected
    session,         \* transport: self.session, NoSession or the number of a Session object
    sessions,        \* the number of Session objects created so far
    session_headers, \* the header names set on self.session
    session_cert,    \* whether self.session.cert is set
    session_cookies, \* the cookies self.session holds
    sent_by,         \* the Session object each request went through, in order
    transport_raised,\* "none", or the exception the last transport call ended with
    model_op,        \* models: "none", or the class or function last called
    model_raised,    \* models: "none", or the exception that call ended with
    arg_lfdi,        \* EndDevice(lfdi=...): the hexadecimal digits of the string
    arg_sfdi,        \* EndDevice(sfdi=...): the supplied string, or NoString
    sfdi,            \* the sfdi field of the EndDevice that was built
    arg_s,           \* get_local_lfdi_from_string: argument s, its code points
    local_lfdi,      \* get_local_lfdi_from_string: the hexadecimal digits it returned
    arg_children,    \* list wrapper: the child elements of the decoded document, in order
    list_value,      \* list wrapper: its list field once built
    flag_members,    \* StrictIntFlag.validate: len(cls), the number of members
    flag_value,      \* StrictIntFlag.validate: argument value
    flag_result,     \* StrictIntFlag.validate: the value it returned
    arg_kwargs,      \* PydanticList.dict: the keyword arguments include and exclude
    item_kwargs,     \* PydanticList.dict: the keyword arguments each item's dict gets
    list_dict,       \* PydanticList.dict: the shape of what it returned
    model_obj,       \* to_xml: the object that is encoded
    arg_mode,        \* to_xml: argument mode
    document,        \* to_xml: the document it returned
    decoded          \* from_xml: the object decoded from that document

vars == <<op, pc, raised, log, end_device, arg_edev_id, create_nested, edev_id,
          der_idx, der_id, server_devices, include_self, start0, page_size,
          start, result, yielded, arg_response, resource_id,
          end_devices, create_der, abort_on_error, posted,
          auth, is_connected, session, sessions, session_headers, session_cert,
          session_cookies, sent_by, transport_raised,
          model_op, model_raised, arg_lfdi, arg_sfdi, sfdi, arg_s, local_lfdi,
          arg_children, list_value,
          flag_members, flag_value, flag_result, arg_kwargs, item_kwargs, list_dict,
          model_obj, arg_mode, document, decoded>>

syncVars == <<end_device, arg_edev_id, create_nested, edev_id, der_idx, der_id>>

listVars == <<server_devices, include_self, start0, page_size, start, result, yielded>>

batchVars == <<end_devices, create_der, abort_on_error, posted>>

callVars == <<arg_response, resource_id, batchVars>>

\* What the operations of the interface leave alone.
transportVars == <<auth, is_connected, session, sessions, session_headers, session_cert,
                   session_cookies, sent_by, transport_raised>>

flagVars == <<flag_members, flag_value, flag_result>>

listDictVars == <<arg_kwargs, item_kwargs, list_dict>>

codecVars == <<model_obj, arg_mode, document, decoded>>

modelVars == <<model_op, model_raised, arg_lfdi, arg_sfdi, sfdi, arg_s, local_lfdi,
               arg_children, list_value, flagVars, listDictVars, codecVars>>

extraVars == <<transportVars, modelVars>>

\* None where a str is expected; a string of digits is the sequence of its digits.
NoString == <<None>>

\* A Python value: t tells which, n is the number of an int or bool, s the text
\* of a str or the class name of an object, items the members of a list or the
\* <<key, value>> pairs of a dict or an object, in order.
\* True is the bool of number 1, False of number 0.
PyValue(t, n, s, items) == [t |-> t, n |-> n, s |-> s, items |-> items]

PyNone == PyValue("none", 0, "", <<>>)

\* An XML element: attrs are <<key, text>> pairs under their '@' keys, text is
\* "" for an element without character data.
Element(tag, attrs, text, children) ==
    [tag |-> tag, attrs |-> attrs, text |-> text, children |-> children]

NoDocument == Element("", <<>>, "", <<>>)

\* A keyword argument include= or exclude=: absent, None, a set of field names
\* or a dict from field names to sets of field names.
KwArg(kind, names, entries) == [kind |-> kind, names |-> names, entries |-> entries]

KwAbsent == KwArg("absent", {}, {})

KwNone == KwArg("None", {}, {})

NoKwargs == [include |-> KwAbsent, exclude |-> KwAbsent]

\* self.session = None
NoSession == 0

NoResult == [kind |-> "none", end_device |-> <<>>]

Ended == pc \in {"done", "raised"}

CanCall == pc = "idle"

Init ==
    /\ op = "none"
    /\ pc = "idle"
    /\ raised = "none"
    /\ log = <<>>
    /\ end_device = [device_information |-> FALSE, der_set |-> FALSE, der |-> <<>>,
                     connection_point |-> FALSE]
    /\ arg_edev_id = None
    /\ create_nested = FALSE
    /\ edev_id = None
    /\ der_idx = 0
    /\ der_id = None
    /\ server_devices = <<>>
    /\ include_self = FALSE
    /\ start0 = 0
    /\ page_size = 0
    /\ start = 0
    /\ result = NoResult
    /\ yielded = <<>>
    /\ arg_response = Response(0, NoHeaders, NoContent)
    /\ resource_id = None
    /\ end_devices = <<>>
    /\ create_der = FALSE
    /\ abort_on_error = FALSE
    /\ posted = <<>>
    /\ auth = "absent"
    /\ is_connected = FALSE
    /\ session = NoSession
    /\ sessions = 0
    /\ session_headers = {}
    /\ session_cert = FALSE
    /\ session_cookies = {}
    /\ sent_by = <<>>
    /\ transport_raised = "none"
    /\ model_op = "none"
    /\ model_raised = "none"
    /\ arg_lfdi = <<>>
    /\ arg_sfdi = NoString
    /\ sfdi = NoString
    /\ arg_s = <<>>
    /\ local_lfdi = NoString
    /\ arg_children = <<>>
    /\ list_value = <<>>
    /\ flag_members = 0
    /\ flag_value = 0
    /\ flag_result = None
    /\ arg_kwargs = NoKwargs
    /\ item_kwargs = NoKwargs
    /\ list_dict = "none"
    /\ model_obj = PyNone
    /\ arg_mode = "none"
    /\ document = NoDocument
    /\ decoded = PyNone

\* ------------------------------------------------------- helpers of the code
HasHeader(response, name) == \E h \in response.headers : h[1] = name

HeaderValue(response, name) == (CHOOSE h \in response.headers : h[1] = name)[2]

\* str.split("/")[-1] of a path
LastSegment(path) == path[Len(path)]

\* int(s): defined on the decimal strings only, a ValueError on anything else
IsIntSegment(s) == \E i \in IdRange : ToString(i) = s

ParseInt(s) == CHOOSE i \in IdRange : ToString(i) = s

\* Mutant: the id read from the second segment, split("/")[1].
ResourceSegment_second(location) == location[2]

\* The segment of the location header the id is read from.
ResourceSegment(location) == LastSegment(location)

\* Mutant: a response without location header gives the id 1 of the mock.
trailing_resource_id_default(response) ==
    IF HasHeader(response, "location")
    THEN LET seg == LastSegment(HeaderValue(response, "location"))
         IN IF IsIntSegment(seg)
            THEN [raises |-> "none", id |-> ParseInt(seg)]
            ELSE [raises |-> "ValueError", id |-> None]
    ELSE [raises |-> "none", id |-> 1]

\* trailing_resource_id_from_response: the id, or the ValueError it raises.
trailing_resource_id_from_response(response) ==
    IF HasHeader(response, "location")
    THEN LET seg == ResourceSegment(HeaderValue(response, "location"))
         IN IF IsIntSegment(seg)
            THEN [raises |-> "none", id |-> ParseInt(seg)]
            ELSE [raises |-> "ValueError", id |-> None]
    ELSE [raises |-> "ValueError", id |-> None]

\* The path templates of the interface.
EdevListPath == <<"edev">>

EdevPath(id) == <<"edev", ToString(id)>>

DeviceInformationPath(id) == <<"edev", ToString(id), "di">>

DerListPath(id) == <<"edev", ToString(id), "der">>

DerCapabilityPath(id, did) == <<"edev", ToString(id), "der", ToString(did), "dercap">>

ConnectionPointPath(id) == <<"edev", ToString(id), "cp">>

MupListPath == <<"mup">>

\* Mutant: the readings of a usage point posted one level down.
MupPath_reading(id) == <<"mup", ToString(id), "mr">>

MupPath(id) == <<"mup", ToString(id)>>

\* BaseModel.from_xml: xmltodict.parse(document)[cls.__name__], a KeyError when
\* the document's root element is not the class name.
from_xml(cls, content) == IF content.root = cls THEN "none" ELSE "KeyError"

\* Mutant: a device that is not found is an error instead of a warning.
get_end_device_not_found_raises(response) ==
    IF response.status_code = 200 THEN from_xml("EndDevice", response.content)
    ELSE "ValueError"

\* get_end_device: decodes the body of a 200 and nothing else; the exception
\* it ends with ("none": it returns).
get_end_device(response) ==
    IF response.status_code = 200 THEN from_xml("EndDevice", response.content) ELSE "none"

\* The EndDevice object from_xml builds from a device document.
DecodedEndDevice(content) == [kind |-> "device", end_device |-> content.children]

\* Mutant: the body of every response that is no error is decoded.
get_end_device_value_any_ok(response) ==
    IF response.status_code < 400 THEN DecodedEndDevice(response.content)
    ELSE [kind |-> "none", end_device |-> <<>>]

\* get_end_device, lines 155-158: the value it returns when it does not raise.
get_end_device_value(response) ==
    IF response.status_code = 200 THEN DecodedEndDevice(response.content)
    ELSE [kind |-> "none", end_device |-> <<>>]

\* Mutant: the device is created whether or not an id was supplied.
NoIdSupplied_always(id) == TRUE

\* sync_end_device, line 179: whether the device is to be created first.
NoIdSupplied(id) == id = None

\* Mutant: any status up to 201 taken as a creation, as line 201 does for a DER.
EndDeviceCreated_upto201(response) == response.status_code <= 201

\* sync_end_device, line 182: whether the POST /edev is taken as a success.
EndDeviceCreated(response) == response.status_code = 201

Ctl(p, exc) == [pc |-> p, raised |-> exc]

\* Mutant: the connection point is put whether or not the device has one.
AfterDerLoop_always_cp(dev) == Ctl("sync_cp", "none")

\* Where sync_end_device goes once the DER loop is over (lines 209-210).
AfterDerLoop(dev) == IF dev.connection_point THEN Ctl("sync_cp", "none") ELSE Ctl("done", "none")

\* The for loop over end_device.der at position i (line 199).
DerLoop(dev, i) == IF i <= Len(dev.der) THEN Ctl("sync_der", "none") ELSE AfterDerLoop(dev)

\* After create_device_information returned: iterating a der of None is a TypeError.
AfterDeviceInformation(dev) ==
    IF dev.der_set THEN DerLoop(dev, 1) ELSE Ctl("raised", "TypeError")

\* After the GET (lines 194-197): with create_nested, device_information.to_xml
\* is evaluated before the PUT is sent, an AttributeError when it is None.
AfterGet(dev, nested) ==
    IF ~nested THEN Ctl("done", "none")
    ELSE IF dev.device_information THEN Ctl("sync_di", "none")
    ELSE Ctl("raised", "AttributeError")

\* Mutant: the capability of a DER is never put.
AfterDer_skip_capability(dev, i) == DerLoop(dev, i + 1)

\* After create_der returned and der_id was read (lines 203-204).
AfterDer(dev, i) ==
    IF dev.der[i].der_capability THEN Ctl("sync_dercap", "none") ELSE DerLoop(dev, i + 1)

\* ------------------------------------------------------------ sync_end_device
\* The caller invokes sync_end_device(end_device, edev_id, create_nested).
sync_end_device(dev, id, nested) ==
    /\ op' = "sync_end_device"
    /\ end_device' = dev
    /\ arg_edev_id' = id
    /\ create_nested' = nested
    /\ edev_id' = id
    /\ der_idx' = 0
    /\ der_id' = None
    /\ log' = <<>>
    /\ raised' = "none"
    /\ pc' = IF NoIdSupplied(id) THEN "sync_create" ELSE "sync_get"
    /\ UNCHANGED listVars
    /\ UNCHANGED <<callVars, extraVars>>

CallSyncEndDevice ==
    /\ CanCall
    /\ \E dev \in ValidEndDevices, id \in ServerIds \cup {None}, nested \in BOOLEAN :
        sync_end_device(dev, id, nested)

\* Lines 181-190: POST /edev, then the id from the location header or a ValueError.
SyncCreateEndDevice ==
    /\ pc = "sync_create"
    /\ \E response \in PostResponses(EdevListPath, CreateStatuses) :
        LET rid == trailing_resource_id_from_response(response)
            ok == EndDeviceCreated(response) /\ rid.raises = "none"
        IN /\ log' = Append(log, Exchange(Request("POST", EdevListPath, <<>>), response))
           /\ edev_id' = IF ok THEN rid.id ELSE edev_id
           /\ pc' = IF ok THEN "sync_get" ELSE "raised"
           /\ raised' = IF ok THEN "none" ELSE "ValueError"
    /\ UNCHANGED <<end_device, arg_edev_id, create_nested, der_idx, der_id>>
    /\ UNCHANGED <<op, listVars>>
    /\ UNCHANGED <<callVars, extraVars>>

\* Line 192: GET /edev/{edev_id}; the result is dropped.
SyncGetEndDevice ==
    /\ pc = "sync_get"
    /\ \E response \in GetDeviceResponses :
        LET exc == get_end_device(response)
            next == IF exc = "none" THEN AfterGet(end_device, create_nested)
                    ELSE Ctl("raised", exc)
        IN /\ log' = Append(log, Exchange(Request("GET", EdevPath(edev_id), <<>>), response))
           /\ pc' = next.pc
           /\ raised' = next.raised
    /\ UNCHANGED syncVars
    /\ UNCHANGED <<op, listVars>>
    /\ UNCHANGED <<callVars, extraVars>>

\* Lines 195-197: PUT /edev/{edev_id}/di; the response is dropped.
SyncDeviceInformation ==
    /\ pc = "sync_di"
    /\ \E response \in PutResponses :
        LET next == AfterDeviceInformation(end_device)
        IN /\ log' = Append(log, Exchange(Request("PUT", DeviceInformationPath(edev_id), <<>>),
                                          response))
           /\ pc' = next.pc
           /\ raised' = next.raised
           /\ der_idx' = IF next.pc = "sync_der" THEN 1 ELSE der_idx
    /\ UNCHANGED <<end_device, arg_edev_id, create_nested, edev_id, der_id>>
    /\ UNCHANGED <<op, listVars>>
    /\ UNCHANGED <<callVars, extraVars>>

\* Lines 200-204: POST /edev/{edev_id}/der; a status above 201 is logged, and
\* der_id is read from the location header whatever the status.
SyncDer ==
    /\ pc = "sync_der"
    /\ \E response \in PostResponses(DerListPath(edev_id), NestedStatuses) :
        LET rid == trailing_resource_id_from_response(response)
            next == IF rid.raises = "none" THEN AfterDer(end_device, der_idx)
                    ELSE Ctl("raised", rid.raises)
        IN /\ log' = Append(log, Exchange(Request("POST", DerListPath(edev_id), <<>>), response))
           /\ der_id' = IF rid.raises = "none" THEN rid.id ELSE der_id
           /\ pc' = next.pc
           /\ raised' = next.raised
           /\ der_idx' = IF next.pc = "sync_dercap" \/ next.pc = "raised"
                         THEN der_idx ELSE der_idx + 1
    /\ UNCHANGED <<end_device, arg_edev_id, create_nested, edev_id>>
    /\ UNCHANGED <<op, listVars>>
    /\ UNCHANGED <<callVars, extraVars>>

\* Lines 205-207: PUT /edev/{edev_id}/der/{der_id}/dercap; the response is dropped.
SyncDerCapability ==
    /\ pc = "sync_dercap"
    /\ \E response \in PutResponses :
        LET next == DerLoop(end_device, der_idx + 1)
        IN /\ log' = Append(log, Exchange(Request("PUT", DerCapabilityPath(edev_id, der_id), <<>>),
                                          response))
           /\ pc' = next.pc
           /\ raised' = next.raised
           /\ der_idx' = der_idx + 1
    /\ UNCHANGED <<end_device, arg_edev_id, create_nested, edev_id, der_id>>
    /\ UNCHANGED <<op, listVars>>
    /\ UNCHANGED <<callVars, extraVars>>

\* Line 210: PUT /edev/{edev_id}/cp; the response is dropped.
SyncConnectionPoint ==
    /\ pc = "sync_cp"
    /\ \E response \in PutResponses :
        /\ log' = Append(log, Exchange(Request("PUT", ConnectionPointPath(edev_id), <<>>),
                                       response))
        /\ pc' = "done"
        /\ raised' = "none"
    /\ UNCHANGED syncVars
    /\ UNCHANGED <<op, listVars>>
    /\ UNCHANGED <<callVars, extraVars>>

\* ------------------------------------------------------------ device listing
Min(a, b) == IF a < b THEN a ELSE b

ServerDeviceLists == UNION {[1..n -> Lfdis] : n \in 0..MaxDevices}

\* The EndDevice children the server puts in the page asked for by ?s=&l=: the
\* devices from offset s on, at most l of them. href tells one child from another.
ServerPage(devices, s, l) ==
    LET n == IF Len(devices) > s THEN Min(l, Len(devices) - s) ELSE 0
    IN [k \in 1..n |-> [lfdi |-> devices[s + k], href |-> s + k]]

\* What a server holding `devices` may answer to GET /edev?s=&l=: an error
\* status, or a 200 with an EndDeviceList element holding the page; an element
\* without children comes with or without attributes.
ListResponses(devices, s, l) ==
    LET page == ServerPage(devices, s, l)
    IN {Response(500, NoHeaders, NoContent)}
       \cup {Response(200, NoHeaders, [root |-> "EndDeviceList", attrs |-> a, children |-> page]) :
                a \in IF page = <<>> THEN BOOLEAN ELSE {TRUE}}

\* requests.Response.__bool__ is Response.ok: no 4xx or 5xx status.
ResponseOk(response) == response.status_code < 400

NoItem == [lfdi |-> "", href |-> 0]

\* xmltodict.parse(content)["EndDeviceList"]: None for an element with neither
\* attributes nor children; else a dict, where a child element that occurs once
\* is a single value and one that occurs several times is a list.
xmltodict_parse(content) ==
    LET c == content.children
    IN [is_none |-> ~content.attrs /\ c = <<>>,
        keys |-> (IF c = <<>> THEN {} ELSE {"EndDevice"})
                 \cup (IF content.attrs THEN {"@href"} ELSE {}),
        EndDevice |-> IF Len(c) = 1
                      THEN [is_list |-> FALSE, item |-> c[1], items |-> <<>>]
                      ELSE [is_list |-> TRUE, item |-> NoItem, items |-> c]]

\* Mutant: a value that is no list is dropped.
ensure_list_drops_single(v) == IF ~v.is_list THEN <<>> ELSE v.items

\* EndDeviceList.ensure_list: a value that is no list becomes a one-element list.
ensure_list(v) == IF ~v.is_list THEN <<v.item>> ELSE v.items

EndDeviceList(devices) == [kind |-> "list", end_device |-> devices]

\* get_end_devices, lines 89-95, on the response to its GET: the value it
\* returns, or the exception it raises. `"EndDevice" not in None` is a TypeError.
get_end_devices(response) ==
    IF ~ResponseOk(response) THEN [raises |-> "none", value |-> NoResult]
    ELSE LET response_dct == xmltodict_parse(response.content)
         IN IF response_dct.is_none THEN [raises |-> "TypeError", value |-> NoResult]
            ELSE IF "EndDevice" \notin response_dct.keys
                 THEN [raises |-> "none", value |-> NoResult]
                 ELSE [raises |-> "none",
                       value |-> EndDeviceList(ensure_list(response_dct.EndDevice))]

\* The request get_end_devices sends.
ListRequest(s, l) == Request("GET", EdevListPath, <<s, l>>)

\* `while result:` -- None is falsy, an EndDeviceList object is truthy.
Truthy(res) == res.kind = "list"

\* filter(lambda item: item.lfdi != self.lfdi, ...)
NotSelf(item) == item.lfdi # SelfLfdi

FilterSelf(devices) == SelectSeq(devices, NotSelf)

\* Mutant: the page is yielded as it came, whatever include_self says.
YieldedPage_unfiltered(res, inc) == res.end_device

\* Lines 63-71: the page as it is yielded.
YieldedPage(res, inc) == IF inc THEN res.end_device ELSE FilterSelf(res.end_device)

\* Mutant: start stays where it is.
NextStart_stuck(s, num_results) == s

\* Mutant: start advances by the number of devices left after the filter.
NextStart_filtered(s, num_results) == s + Len(YieldedPage(result, include_self))

\* Line 73: the offset of the next page.
NextStart(s, num_results) == s + num_results

\* No listing of a server with at most MaxDevices devices needs more requests.
MaxGets == MaxDevices + 1

CallGetPagedEndDevices ==
    /\ CanCall
    /\ \E devices \in ServerDeviceLists, inc \in BOOLEAN, s \in 0..MaxStart, ps \in 0..MaxPageSize :
        /\ server_devices' = devices
        /\ include_self' = inc
        /\ start0' = s
        /\ page_size' = ps
        /\ start' = s
        /\ result' = NoResult
        /\ yielded' = <<>>
        /\ log' = <<>>
        /\ raised' = "none"
        /\ pc' = "paged_fetch"
        /\ op' = "get_paged_end_devices"
        /\ UNCHANGED syncVars
        /\ UNCHANGED <<callVars, extraVars>>

\* Lines 59 and 74: result = self.get_end_devices(start=start, limit=page_size),
\* and the test of `while result`.
PagedFetch ==
    /\ pc = "paged_fetch"
    /\ Len(log) < MaxGets
    /\ \E response \in ListResponses(server_devices, start, page_size) :
        LET r == get_end_devices(response)
        IN /\ log' = Append(log, Exchange(ListRequest(start, page_size), response))
           /\ result' = r.value
           /\ raised' = r.raises
           /\ pc' = IF r.raises # "none" THEN "raised"
                    ELSE IF Truthy(r.value) THEN "paged_yield" ELSE "done"
    /\ UNCHANGED <<server_devices, include_self, start0, page_size, start, yielded>>
    /\ UNCHANGED <<op, syncVars>>
    /\ UNCHANGED <<callVars, extraVars>>

\* Lines 62-73: count the page, filter it, yield it, advance start.
PagedYield ==
    /\ pc = "paged_yield"
    /\ LET num_results == Len(result.end_device)
       IN /\ yielded' = Append(yielded, YieldedPage(result, include_self))
          /\ start' = NextStart(start, num_results)
    /\ pc' = "paged_fetch"
    /\ UNCHANGED <<raised, log, server_devices, include_self, start0, page_size, result>>
    /\ UNCHANGED <<op, syncVars>>
    /\ UNCHANGED <<callVars, extraVars>>

CallGetEndDevices ==
    /\ CanCall
    /\ \E devices \in ServerDeviceLists, inc \in BOOLEAN, s \in 0..MaxStart, l \in 0..MaxPageSize :
        /\ server_devices' = devices
        /\ include_self' = inc
        /\ start0' = s
        /\ page_size' = l
        /\ start' = s
        /\ result' = NoResult
        /\ yielded' = <<>>
        /\ log' = <<>>
        /\ raised' = "none"
        /\ pc' = "list_get"
        /\ op' = "get_end_devices"
        /\ UNCHANGED syncVars
        /\ UNCHANGED <<callVars, extraVars>>

\* get_end_devices called on its own: one GET, then its return value in result.
GetEndDevices ==
    /\ pc = "list_get"
    /\ \E response \in ListResponses(server_devices, start0, page_size) :
        LET r == get_end_devices(response)
        IN /\ log' = Append(log, Exchange(ListRequest(start0, page_size), response))
           /\ result' = r.value
           /\ raised' = r.raises
           /\ pc' = IF r.raises # "none" THEN "raised" ELSE "done"
    /\ UNCHANGED <<server_devices, include_self, start0, page_size, start, yielded>>
    /\ UNCHANGED <<op, syncVars>>
    /\ UNCHANGED <<callVars, extraVars>>

\* ------------------------------------------------------------ get_end_device
CallGetEndDevice ==
    /\ CanCall
    /\ \E id \in ServerIds :
        /\ op' = "get_end_device"
        /\ arg_edev_id' = id
        /\ edev_id' = id
        /\ log' = <<>>
        /\ raised' = "none"
        /\ pc' = "device_get"
    /\ UNCHANGED <<end_device, create_nested, der_idx, der_id>>
    /\ UNCHANGED listVars
    /\ UNCHANGED <<callVars, extraVars>>

\* Lines 154-158: GET /edev/{edev_id}, then the EndDevice decoded from a 200 or None.
GetEndDevice ==
    /\ pc = "device_get"
    /\ \E response \in DeviceResponses :
        LET exc == get_end_device(response)
        IN /\ log' = Append(log, Exchange(Request("GET", EdevPath(edev_id), <<>>), response))
           /\ result' = IF exc = "none" THEN get_end_device_value(response) ELSE NoResult
           /\ raised' = exc
           /\ pc' = IF exc = "none" THEN "done" ELSE "raised"
    /\ UNCHANGED <<server_devices, include_self, start0, page_size, start, yielded>>
    /\ UNCHANGED <<op, syncVars>>
    /\ UNCHANGED <<callVars, extraVars>>

\* ------------------------------------------ trailing_resource_id_from_response
\* The function called on its own (scripts call it on the responses they get).
TrailingResourceId ==
    /\ CanCall
    /\ \E response \in LocatedResponses :
        LET rid == trailing_resource_id_from_response(response)
        IN /\ op' = "trailing_resource_id_from_response"
           /\ arg_response' = response
           /\ resource_id' = rid.id
           /\ raised' = rid.raises
           /\ pc' = IF rid.raises = "none" THEN "done" ELSE "raised"
    /\ UNCHANGED <<log, syncVars, listVars, batchVars>>
    /\ UNCHANGED extraVars

\* ------------------------------------------------------------ sync_end_devices
DeviceBatches == UNION {[1..n -> Lfdis] : n \in 0..MaxBatch}

\* What the server may answer to the POST /edev of one device of the list.
BatchResponses ==
    {Response(s, h, NoContent) :
        s \in NestedStatuses, h \in {NoHeaders, LocationHeader(<<"edev", "3">>)}}

\* Mutant: with abort_on_error the loop ends at the first error status.
BatchLoop_aborting(devices, i, response, abort) ==
    IF abort /\ response.status_code > 201 THEN Ctl("raised", "ValueError")
    ELSE IF i <= Len(devices) THEN Ctl("batch_post", "none") ELSE Ctl("done", "none")

\* The for loop of sync_end_devices at position i (lines 227-229), after
\* `response` came back: neither the response nor abort_on_error is read.
BatchLoop(devices, i, response, abort) ==
    IF i <= Len(devices) THEN Ctl("batch_post", "none") ELSE Ctl("done", "none")

CallSyncEndDevices ==
    /\ CanCall
    /\ \E devices \in DeviceBatches, der \in BOOLEAN, abort \in BOOLEAN :
        /\ op' = "sync_end_devices"
        /\ end_devices' = devices
        /\ create_der' = der
        /\ abort_on_error' = abort
        /\ posted' = <<>>
        /\ log' = <<>>
        /\ raised' = "none"
        /\ pc' = IF devices = <<>> THEN "done" ELSE "batch_post"
    /\ UNCHANGED <<arg_response, resource_id>>
    /\ UNCHANGED <<syncVars, listVars, extraVars>>

\* Line 228: self.create_end_device(end_device), POST /edev with the document of
\* the next device of the list.
SyncEndDevicesPost ==
    /\ pc = "batch_post"
    /\ \E response \in BatchResponses :
        LET i == Len(posted) + 1
            next == BatchLoop(end_devices, i + 1, response, abort_on_error)
        IN /\ log' = Append(log, Exchange(Request("POST", EdevListPath, <<>>), response))
           /\ posted' = Append(posted, end_devices[i])
           /\ pc' = next.pc
           /\ raised' = next.raised
    /\ UNCHANGED <<arg_response, resource_id, end_devices, create_der, abort_on_error>>
    /\ UNCHANGED <<op, syncVars, listVars, extraVars>>

\* ------------------------------------------------- the single-request operations
\* An operation that sends one request and returns the response.
Exchanged(name, request, response) ==
    /\ op' = name
    /\ log' = <<Exchange(request, response)>>
    /\ pc' = "done"
    /\ raised' = "none"
    /\ UNCHANGED <<syncVars, listVars, callVars, extraVars>>

CreateEndDevice ==
    /\ CanCall
    /\ \E response \in PostResponses(EdevListPath, CreateStatuses) :
        Exchanged("create_end_device", Request("POST", EdevListPath, <<>>), response)

CreateSelfDevice ==
    /\ CanCall
    /\ \E response \in PostResponses(EdevListPath, CreateStatuses) :
        Exchanged("create_self_device", Request("POST", EdevListPath, <<>>), response)

UpdateEndDevice ==
    /\ CanCall
    /\ \E id \in ServerIds, response \in PutResponses :
        Exchanged("update_end_device", Request("PUT", EdevPath(id), <<>>), response)

CreateDeviceInformation ==
    /\ CanCall
    /\ \E id \in ServerIds, response \in PutResponses :
        Exchanged("create_device_information",
                  Request("PUT", DeviceInformationPath(id), <<>>), response)

CreateDer ==
    /\ CanCall
    /\ \E id \in ServerIds :
        \E response \in PostResponses(DerListPath(id), NestedStatuses) :
            Exchanged("create_der", Request("POST", DerListPath(id), <<>>), response)

CreateDerCapability ==
    /\ CanCall
    /\ \E id \in ServerIds, did \in ServerIds, response \in PutResponses :
        Exchanged("create_der_capability",
                  Request("PUT", DerCapabilityPath(id, did), <<>>), response)

CreateConnectionPoint ==
    /\ CanCall
    /\ \E id \in ServerIds, response \in PutResponses :
        Exchanged("create_connection_point",
                  Request("PUT", ConnectionPointPath(id), <<>>), response)

CreateMup ==
    /\ CanCall
    /\ \E response \in PostResponses(MupListPath, CreateStatuses) :
        Exchanged("create_mup", Request("POST", MupListPath, <<>>), response)

CreateMirrorMeterReading ==
    /\ CanCall
    /\ \E mup_id \in ServerIds :
        \E response \in PostResponses(MupPath(mup_id), CreateStatuses) :
            Exchanged("create_mirror_meter_reading",
                      Request("POST", MupPath(mup_id), <<>>), response)

\* The operation has returned or raised: the caller is free to call again. The
\* interface keeps nothing from one call to the next.
Return ==
    /\ Ended
    /\ op' = "none"
    /\ pc' = "idle"
    /\ raised' = "none"
    /\ log' = <<>>
    /\ end_device' = [device_information |-> FALSE, der_set |-> FALSE, der |-> <<>>,
                      connection_point |-> FALSE]
    /\ arg_edev_id' = None
    /\ create_nested' = FALSE
    /\ edev_id' = None
    /\ der_idx' = 0
    /\ der_id' = None
    /\ server_devices' = <<>>
    /\ include_self' = FALSE
    /\ start0' = 0
    /\ page_size' = 0
    /\ start' = 0
    /\ result' = NoResult
    /\ yielded' = <<>>
    /\ arg_response' = Response(0, NoHeaders, NoContent)
    /\ resource_id' = None
    /\ end_devices' = <<>>
    /\ create_der' = FALSE
    /\ abort_on_error' = FALSE
    /\ posted' = <<>>
    /\ UNCHANGED extraVars

Next ==
    \/ Return
    \/ CallSyncEndDevice
    \/ SyncCreateEndDevice
    \/ SyncGetEndDevice
    \/ SyncDeviceInformation
    \/ SyncDer
    \/ SyncDerCapability
    \/ SyncConnectionPoint
    \/ CallGetPagedEndDevices
    \/ PagedFetch
    \/ PagedYield
    \/ CallGetEndDevices
    \/ GetEndDevices
    \/ CallGetEndDevice
    \/ GetEndDevice
    \/ TrailingResourceId
    \/ CallSyncEndDevices
    \/ SyncEndDevicesPost
    \/ CreateEndDevice
    \/ CreateSelfDevice
    \/ UpdateEndDevice
    \/ CreateDeviceInformation
    \/ CreateDer
    \/ CreateDerCapability
    \/ CreateConnectionPoint
    \/ CreateMup
    \/ CreateMirrorMeterReading

Spec == Init /\ [][Next]_vars

\* The caller of the generator keeps pulling pages (a for loop over it), and every
\* request is answered.
FairSpec == Spec /\ WF_vars(PagedFetch) /\ WF_vars(PagedYield)

\* ------------------------------------------------------------------ transport
\* The kinds of auth a RequestsTransport is constructed with: None,
\* LocalModeXTokenAuth, ClientCerticateAuth.
Auths == {"None", "LocalModeXTokenAuth", "ClientCerticateAuth"}

\* auth.update_session(session): the headers it sets.
AuthHeaders(a) ==
    IF a = "LocalModeXTokenAuth" THEN {"X-Token", "X-Forwarded-Client-Cert"} ELSE {}

\* auth.update_session(session): whether it sets session.cert.
AuthCert(a) == a = "ClientCerticateAuth"

\* RequestsTransport.connect, lines 77-79: is_connected is logged, and a new
\* Session is created whatever it says.
NewSessionNeeded(connected) == TRUE

\* RequestsTransport.connect, called by the owner of the transport and by
\* EndDeviceInterface.__init__ and AggregatorClient.__init__ on the transport
\* they are given.
Connect ==
    /\ auth # "absent"
    /\ sessions < MaxSessions
    /\ IF NewSessionNeeded(is_connected)
       THEN /\ sessions' = sessions + 1
            /\ session' = sessions + 1
            /\ session_headers' = AuthHeaders(auth) \cup {"Content-Type"}
            /\ session_cert' = AuthCert(auth)
            /\ session_cookies' = {}
       ELSE UNCHANGED <<sessions, session, session_headers, session_cert, session_cookies>>
    /\ is_connected' = TRUE
    /\ transport_raised' = "none"
    /\ UNCHANGED <<auth, sent_by>>
    /\ UNCHANGED <<op, pc, raised, log, syncVars, listVars, callVars, modelVars>>

\* Transport.__init__: RequestsTransport(base_url, auth).
NewTransport ==
    /\ auth = "absent"
    /\ \E a \in Auths : auth' = a
    /\ is_connected' = FALSE
    /\ session' = NoSession
    /\ UNCHANGED <<sessions, session_headers, session_cert, session_cookies, sent_by,
                   transport_raised>>
    /\ UNCHANGED <<op, pc, raised, log, syncVars, listVars, callVars, modelVars>>

\* RequestsTransport.get / post / put: self.session.get(...); a transport that
\* never connected has session None. The server may set a cookie.
Send ==
    /\ auth # "absent"
    /\ Len(sent_by) < MaxSends
    /\ IF session = NoSession
       THEN /\ transport_raised' = "AttributeError"
            /\ UNCHANGED <<sent_by, session_cookies>>
       ELSE /\ transport_raised' = "none"
            /\ sent_by' = Append(sent_by, session)
            /\ \E set_cookie \in SUBSET {"sid"} :
                  session_cookies' = session_cookies \cup set_cookie
    /\ UNCHANGED <<auth, is_connected, session, sessions, session_headers, session_cert>>
    /\ UNCHANGED <<op, pc, raised, log, syncVars, listVars, callVars, modelVars>>

\* RequestsTransport.close: self.session.close(); the Session stays in place.
Close ==
    /\ auth # "absent"
    /\ transport_raised' = IF session = NoSession THEN "AttributeError" ELSE "none"
    /\ UNCHANGED <<auth, is_connected, session, sessions, session_headers, session_cert,
                   session_cookies, sent_by>>
    /\ UNCHANGED <<op, pc, raised, log, syncVars, listVars, callVars, modelVars>>

TransportNext ==
    \/ NewTransport
    \/ Connect
    \/ Send
    \/ Close

TransportSpec == Init /\ [][TransportNext]_vars

\* --------------------------------------------------------------------- models
\* An integer of any size is the sequence of its bits, most significant first,
\* without leading zeros: 0 is <<>> and bit_length is Len.
Zeros(n) == [i \in 1..n |-> 0]

\* bit k (0 the most significant of four) of the hexadecimal digit h
HexBit(h, k) == (h \div (2 ^ (3 - k))) % 2

RECURSIVE StripZeros(_)
StripZeros(bits) ==
    IF bits = <<>> \/ Head(bits) = 1 THEN bits ELSE StripZeros(Tail(bits))

\* int(s, 16) of the string whose hexadecimal digits are hex
int16(hex) ==
    StripZeros([i \in 1..(4 * Len(hex)) |-> HexBit(hex[((i - 1) \div 4) + 1], (i - 1) % 4)])

bit_length(n) == Len(n)

\* n >> k for k >= 0
ShiftRight(n, k) == SubSeq(n, 1, Len(n) - k)

\* 2 * d + c on decimal digits, least significant first
RECURSIVE DoubleAdd(_, _)
DoubleAdd(d, c) ==
    IF d = <<>> THEN (IF c = 0 THEN <<>> ELSE <<c>>)
    ELSE LET v == 2 * Head(d) + c IN <<v % 10>> \o DoubleAdd(Tail(d), v \div 10)

RECURSIVE DecimalLsb(_)
DecimalLsb(n) ==
    IF n = <<>> THEN <<>> ELSE DoubleAdd(DecimalLsb(SubSeq(n, 1, Len(n) - 1)), n[Len(n)])

Reverse(q) == [i \in 1..Len(q) |-> q[Len(q) + 1 - i]]

\* str(n): the decimal digits, most significant first
str(n) == IF n = <<>> THEN <<0>> ELSE Reverse(DecimalLsb(n))

\* str(k) for the small integers a checksum can be
StrSmall(k) == IF k >= 10 THEN <<k \div 10, k % 10>> ELSE <<k>>

RECURSIVE Sum(_)
Sum(digits) == IF digits = <<>> THEN 0 ELSE Head(digits) + Sum(Tail(digits))

\* calculate_sfdi, line 431
bit_left_truncation_len == 36

\* Mutant: a supplied sfdi is never looked at.
SfdiGiven_never(v) == FALSE

\* `not v` is false: v is neither None nor the empty string.
SfdiGiven(v) == v # NoString /\ v # <<>>

\* calculate_sfdi, line 435: the sum-of-digits checksum.
sod_checksum(digits) == 10 - (Sum(digits) % 10)

\* EndDevice.calculate_sfdi(v, values) with values['lfdi'] the string of hex:
\* the value of the sfdi field, or the exception (a negative shift count is a
\* ValueError, which fails the construction).
calculate_sfdi(v, hex) ==
    LET lfdi == int16(hex)
    IN IF lfdi # <<>> /\ ~SfdiGiven(v)
       THEN IF bit_length(lfdi) - bit_left_truncation_len < 0
            THEN [raises |-> "ValueError", value |-> NoString]
            ELSE LET sfdi_no_sod_checksum ==
                         ShiftRight(lfdi, bit_length(lfdi) - bit_left_truncation_len)
                     digits == str(sfdi_no_sod_checksum)
                 IN [raises |-> "none",
                     value |-> digits \o StrSmall(sod_checksum(digits))]
       ELSE [raises |-> "none", value |-> v]

\* The lfdi strings an EndDevice is built from: a leading digit, a run of zeros
\* and two low digits, and the lfdi 0x222099d639e.
SampleLfdi == <<2, 2, 2, 0, 9, 9, 13, 6, 3, 9, 14>>

LfdiInputs ==
    {<<top>> \o Zeros(nz) \o <<lo1, lo2>> :
        top \in {0, 1, 2, 8, 15}, nz \in 0..MaxZeros, lo1 \in {0, 1, 15}, lo2 \in 0..15}
    \cup {SampleLfdi}

\* The sfdi arguments: absent (None), "", "0", "123".
SfdiInputs == {NoString, <<>>, <<0>>, <<1, 2, 3>>}

ModelIdle == model_op = "none"

\* EndDevice(lfdi=..., sfdi=..., device_category=...)
NewEndDevice ==
    /\ ModelIdle
    /\ \E hex \in LfdiInputs, v \in SfdiInputs :
        LET r == calculate_sfdi(v, hex)
        IN /\ model_op' = "EndDevice"
           /\ arg_lfdi' = hex
           /\ arg_sfdi' = v
           /\ sfdi' = r.value
           /\ model_raised' = r.raises
    /\ UNCHANGED <<arg_s, local_lfdi, arg_children, list_value>>
    /\ UNCHANGED <<flagVars, listDictVars, codecVars>>
    /\ UNCHANGED <<op, pc, raised, log, syncVars, listVars, callVars, transportVars>>

\* ------------------------------------------------- get_local_lfdi_from_string
\* The characters of the strings: NUL, '1', 'a' and e-acute (two bytes in UTF-8).
Chars == {0, 49, 97, 233}

Strings == UNION {[1..n -> Chars] : n \in 0..MaxChars}

\* The UTF-8 bytes of a code point below 2048.
Utf8(c) == IF c < 128 THEN <<c>> ELSE <<192 + (c \div 64), 128 + (c % 64)>>

\* s.encode("utf-8")
RECURSIVE encode(_)
encode(s) == IF s = <<>> THEN <<>> ELSE Utf8(Head(s)) \o encode(Tail(s))

\* bytes.hex(): two hexadecimal digits a byte
hex(bytes) ==
    [i \in 1..(2 * Len(bytes)) |->
        IF i % 2 = 1 THEN bytes[(i + 1) \div 2] \div 16 ELSE bytes[i \div 2] % 16]

SFDI_LENGTH_IN_BITS_WITHOUT_CHECKSUM == 36

\* Lines 262-263: the message, one str divided by another, which is a TypeError.
InsufficientLengthMessage == "TypeError"

\* Lines 261-264: raise LFDIInsufficientLengthError(message); the message is
\* evaluated before the error object exists.
RaiseInsufficientLength ==
    IF InsufficientLengthMessage # "none" THEN InsufficientLengthMessage
    ELSE "LFDIInsufficientLengthError"

\* get_local_lfdi_from_string(s): int("", 16) is a ValueError.
get_local_lfdi_from_string(s) ==
    LET lfdi == hex(encode(s))
    IN IF lfdi = <<>> THEN [raises |-> "ValueError", value |-> NoString]
       ELSE IF bit_length(int16(lfdi)) < SFDI_LENGTH_IN_BITS_WITHOUT_CHECKSUM
            THEN [raises |-> RaiseInsufficientLength, value |-> NoString]
            ELSE [raises |-> "none", value |-> lfdi]

GetLocalLfdiFromString ==
    /\ ModelIdle
    /\ \E s \in Strings :
        LET r == get_local_lfdi_from_string(s)
        IN /\ model_op' = "get_local_lfdi_from_string"
           /\ arg_s' = s
           /\ local_lfdi' = r.value
           /\ model_raised' = r.raises
    /\ UNCHANGED <<arg_lfdi, arg_sfdi, sfdi, arg_children, list_value>>
    /\ UNCHANGED <<flagVars, listDictVars, codecVars>>
    /\ UNCHANGED <<op, pc, raised, log, syncVars, listVars, callVars, transportVars>>

\* -------------------------------------------------------------- list wrappers
\* The classes with an ensure_list validator.
ListWrappers == {"EndDeviceList", "MirrorUsagePointList"}

\* The child elements of a list document: one to MaxDevices of them, each told
\* from the others by its href.
ChildLists ==
    {[k \in 1..Len(l) |-> [lfdi |-> l[k], href |-> k]] :
        l \in UNION {[1..n -> Lfdis] : n \in 1..MaxDevices}}

\* EndDeviceList(**response_dct) / MirrorUsagePointList(**response_dct) on the
\* mapping xmltodict decodes from a document with these children: the list
\* field goes through ensure_list.
NewListWrapper ==
    /\ ModelIdle
    /\ \E cls \in ListWrappers, children \in ChildLists :
        LET response_dct == xmltodict_parse([root |-> cls, attrs |-> TRUE,
                                             children |-> children])
        IN /\ model_op' = cls
           /\ arg_children' = children
           /\ list_value' = ensure_list(response_dct.EndDevice)
           /\ model_raised' = "none"
    /\ UNCHANGED <<arg_lfdi, arg_sfdi, sfdi, arg_s, local_lfdi>>
    /\ UNCHANGED <<flagVars, listDictVars, codecVars>>
    /\ UNCHANGED <<op, pc, raised, log, syncVars, listVars, callVars, transportVars>>

\* ------------------------------------------------------------- StrictIntFlag
\* range(n)
range(n) == [i \in 1..n |-> i - 1]

\* functools.reduce(lambda a, b: a + 2 ** b, seq) folded from the value a.
RECURSIVE reduce_from(_, _)
reduce_from(a, seq) ==
    IF seq = <<>> THEN a ELSE reduce_from(a + 2 ^ Head(seq), Tail(seq))

\* Mutant: the fold starts from 0, so the first element is raised to a power too.
reduce_initial_0(seq) == reduce_from(0, seq)

\* reduce(function, seq) without initial value: the first element is the
\* starting value and is not passed through the function.
reduce(seq) == reduce_from(Head(seq), Tail(seq))

\* Line 26: max_value = 1 + reduce(lambda a, b: a + 2 ** b, range(len(cls)))
max_value(n) == 1 + reduce(range(n))

\* StrictIntFlag.validate(value) for an int that is not an instance of cls
\* (lines 24-31), cls having n members.
validate(n, value) ==
    IF value >= 0 /\ value <= max_value(n)
    THEN [raises |-> "none", value |-> value]
    ELSE [raises |-> "ValueError", value |-> None]

\* The integers offered to validate: from below zero to above every bound.
FlagValues == -2..(2 ^ MaxMembers + 2)

StrictIntFlagValidate ==
    /\ ModelIdle
    /\ \E n \in 1..MaxMembers, value \in FlagValues :
        LET r == validate(n, value)
        IN /\ model_op' = "validate"
           /\ flag_members' = n
           /\ flag_value' = value
           /\ flag_result' = r.value
           /\ model_raised' = r.raises
    /\ UNCHANGED <<arg_lfdi, arg_sfdi, sfdi, arg_s, local_lfdi, arg_children, list_value>>
    /\ UNCHANGED <<listDictVars, codecVars>>
    /\ UNCHANGED <<op, pc, raised, log, syncVars, listVars, callVars, transportVars>>

\* ----------------------------------------------------------- PydanticList.dict
\* EndDeviceList.list_field
list_field == "end_device"

\* include= and exclude= as given to PydanticList.dict: absent, None, a set of
\* field names, or a dict with a set of the items' field names under a key.
KwInputs ==
    {KwAbsent, KwNone}
    \cup {KwArg("set", names, {}) : names \in {{"lfdi"}, {list_field}}}
    \cup {KwArg("dict", {}, {<<key, names>>}) :
            key \in {list_field, "other"}, names \in {{"lfdi"}, {"device_category"}}}

\* d.get(key) on a dict of sets: the set under the key, or None.
DictGet(d, key) ==
    IF \E e \in d.entries : e[1] = key
    THEN KwArg("set", (CHOOSE e \in d.entries : e[1] = key)[2], {})
    ELSE KwNone

\* PydanticList.dict(**kwargs): it returns [] (line 167), or the mapping of the
\* class name to the list of sub.dict(*args, **kwargs) (lines 173-178), kwargs
\* being what lines 157-170 made of them: a set given as include is replaced by
\* None and anything else is left as it is; a dict given as exclude is replaced
\* by what it holds under the list field, anything else by None.
PydanticList_dict(kwargs) ==
    LET include == kwargs.include
        exclude == kwargs.exclude
    IN IF exclude.kind = "set" /\ list_field \in exclude.names
       THEN [returns |-> "empty list", kwargs |-> NoKwargs]
       ELSE [returns |-> "mapping",
             kwargs |->
                [include |-> IF include.kind = "set" THEN KwNone ELSE include,
                 exclude |-> IF exclude.kind = "absent" THEN exclude
                             ELSE IF exclude.kind = "dict"
                                  THEN DictGet(exclude, list_field)
                                  ELSE KwNone]]

ListDict ==
    /\ ModelIdle
    /\ \E include \in KwInputs, exclude \in KwInputs :
        LET kwargs == [include |-> include, exclude |-> exclude]
            r == PydanticList_dict(kwargs)
        IN /\ model_op' = "PydanticList.dict"
           /\ arg_kwargs' = kwargs
           /\ item_kwargs' = r.kwargs
           /\ list_dict' = r.returns
           /\ model_raised' = "none"
    /\ UNCHANGED <<arg_lfdi, arg_sfdi, sfdi, arg_s, local_lfdi, arg_children, list_value>>
    /\ UNCHANGED <<flagVars, codecVars>>
    /\ UNCHANGED <<op, pc, raised, log, syncVars, listVars, callVars, transportVars>>

\* ------------------------------------------------------ objects and templates
PyInt(n) == PyValue("int", n, "", <<>>)

PyStr(s) == PyValue("str", 0, s, <<>>)

PyDict(items) == PyValue("dict", 0, "", items)

PyList(items) == PyValue("list", 0, "", items)

\* An object of class cls: its fields and their values, in declaration order.
PyObj(cls, items) == PyValue("obj", 0, cls, items)

\* The default of a field that has none: Field() without default.
Required == PyValue("required", 0, "", <<>>)

\* A declared field: type is int, str, bool, float, enum, model or list (of
\* model), cls the class of an enum, model or list item, optional whether None
\* is a value of the field.
Field(name, alias, type, cls, optional, default) ==
    [name |-> name, alias |-> alias, type |-> type, cls |-> cls,
     optional |-> optional, default |-> default]

\* The rtgMax... fields of DERCapability.
Rating(name, alias) == Field(name, alias, "model", "ValueWithMultiplier", TRUE, PyNone)

\* cls.__fields__
Fields(cls) ==
    CASE cls = "GPSLocationType" ->
            <<Field("lat", "lat", "float", "", FALSE, Required),
              Field("lon", "lon", "float", "", FALSE, Required)>>
      [] cls = "ValueWithMultiplier" ->
            <<Field("multipler", "multipler", "int", "", FALSE, PyInt(0)),
              Field("value", "value", "int", "", FALSE, Required)>>
      [] cls = "Link" ->
            <<Field("href", "@href", "str", "", TRUE, PyNone)>>
      [] cls = "DeviceInformation" ->
            <<Field("functions_implemented", "functionsImplemented", "enum",
                    "FunctionsImplementedType", TRUE, PyNone),
              Field("gps_location", "gpsLocation", "model", "GPSLocationType", TRUE, PyNone),
              Field("lfdi", "lFDI", "str", "", FALSE, Required),
              Field("mf_date", "mfDate", "int", "", FALSE, PyInt(0)),
              Field("mf_hw_ver", "mfHwVer", "str", "", TRUE, PyStr("foo")),
              Field("mf_id", "mfID", "int", "", TRUE, PyNone),
              Field("mf_info", "mfInfo", "str", "", TRUE, PyNone),
              Field("mf_model", "mfModel", "str", "", TRUE, PyNone),
              Field("mf_ser_num", "mfSerNum", "str", "", TRUE, PyNone),
              Field("primary_power", "primaryPower", "enum", "PowerSourceType", TRUE, PyInt(0)),
              Field("secondary_power", "secondaryPower", "enum", "PowerSourceType", TRUE,
                    PyInt(0)),
              Field("sw_act_time", "swActTime", "int", "", TRUE, PyInt(0)),
              Field("sw_ver", "swVer", "str", "", TRUE, PyStr("NA"))>>
      [] cls = "DERCapability" ->
            <<Field("modes_supported", "modesSupported", "int", "", FALSE, PyInt(1)),
              Rating("rtg_max_a", "rtgMaxA"),
              Rating("rtg_max_ah", "rtgMaxAh"),
              Rating("rtg_max_w", "rtgMaxW"),
              Rating("rtg_max_charge_rate_va", "rtgMaxChargeRateVA"),
              Rating("rtg_max_charge_rate_w", "rtgMaxChargeRateW"),
              Rating("rtg_max_discharge_rate_va", "rtgMaxDischargeRateVA"),
              Rating("rtg_max_discharge_rate_w", "rtgMaxDischargeRateW"),
              Field("type_", "type", "enum", "DERType", FALSE, Required)>>
      [] cls = "DER" ->
            <<Field("der_capability", "DERCapability", "model", "DERCapability", TRUE, PyNone)>>
      [] cls = "ConnectionPoint" ->
            <<Field("connection_point_id", "connectionPointID", "str", "", TRUE, PyNone),
              Field("meter_id", "meterID", "str", "", TRUE, PyNone)>>
      [] cls = "EndDevice" ->
            <<Field("device_category", "deviceCategory", "enum", "DeviceCategoryType", FALSE,
                    Required),
              Field("lfdi", "lFDI", "str", "", FALSE, Required),
              Field("sfdi", "sFDI", "str", "", TRUE, PyNone),
              Field("changed_time", "changedTime", "int", "", FALSE, PyInt(0)),
              Field("post_rate", "postRate", "int", "", FALSE, PyInt(0)),
              Field("enabled", "enabled", "bool", "", FALSE, PyValue("bool", 1, "", <<>>)),
              Field("der_list_link", "DERListLink", "model", "Link", TRUE, PyNone),
              Field("device_information_link", "DeviceInformationLink", "model", "Link", TRUE,
                    PyNone),
              Field("der", "DER", "list", "DER", TRUE, PyNone),
              Field("device_information", "deviceInformation", "model", "DeviceInformation",
                    TRUE, PyNone),
              Field("connection_point", "connectionPoint", "model", "ConnectionPoint", TRUE,
                    PyNone)>>

\* The field of class cls with this name.
FieldOf(cls, name) ==
    Fields(cls)[CHOOSE i \in 1..Len(Fields(cls)) : Fields(cls)[i].name = name]

\* The values of the members of an enum class.
Members(cls) ==
    CASE cls = "DeviceCategoryType" ->
            {65536, 262144, 524288, 2097152, 8388608, 16777216, 33554432}
      [] cls = "FunctionsImplementedType" ->
            {0, 1, 2, 4, 8, 16, 32, 64, 128, 256, 512, 1024, 2048, 4096, 8192, 16384,
             32768, 65536, 131072, 262144, 524288}
      [] cls = "PowerSourceType" -> 0..5
      [] cls = "DERType" -> (0..6) \cup (80..83)

\* The keyword arguments a template holds: include (a set of names, or the
\* empty dict {}), by_alias, exclude_none; exclude_unset is False wherever it is
\* given, which is its default.
Kwargs(has_include, include, by_alias, exclude_none) ==
    [has_include |-> has_include, include |-> include, by_alias |-> by_alias,
     exclude_none |-> exclude_none]

\* The modes given to to_xml: the templates that are declared.
Modes == {"create", "link", "show", "list"}

\* getattr(self.XmlTemplate, mode, {}): a class that declares its own
\* XmlTemplate has only the modes it names, the others have the three empty
\* templates of BaseModel.XmlTemplate.
XmlTemplate(cls, mode) ==
    CASE cls = "ValueWithMultiplier" /\ mode \in {"create", "show", "list"} ->
            Kwargs(TRUE, {"multiplier", "value"}, TRUE, FALSE)
      [] cls = "DeviceInformation" /\ mode \in {"create", "show", "list"} ->
            Kwargs(FALSE, {}, TRUE, FALSE)
      [] cls = "DERCapability" /\ mode = "create" ->
            Kwargs(FALSE, {}, TRUE, TRUE)
      [] cls = "DER" /\ mode = "create" ->
            Kwargs(TRUE, {}, TRUE, FALSE)
      [] cls = "ConnectionPoint" /\ mode \in {"create", "show", "list"} ->
            Kwargs(TRUE, {"connection_point_id", "meter_id"}, TRUE, FALSE)
      [] cls = "EndDevice" /\ mode = "create" ->
            Kwargs(TRUE, {"device_category", "lfdi", "sfdi", "changed_time", "post_rate",
                          "enabled"}, TRUE, FALSE)
      [] cls = "EndDevice" /\ mode = "link" ->
            Kwargs(TRUE, {"device_category", "lfdi", "sfdi", "der_list_link",
                          "DeviceInformationLink"}, TRUE, FALSE)
      [] cls = "EndDevice" /\ mode = "show" ->
            Kwargs(TRUE, {"device_category", "lfdi", "sfdi", "der", "device_information"},
                   TRUE, FALSE)
      [] OTHER -> Kwargs(FALSE, {}, FALSE, FALSE)

\* --------------------------------------------------------------------- to_xml
\* pydantic's BaseModel.dict(include=..., by_alias=..., exclude_none=...), which
\* super().dict(...) runs (lines 65-66): a field is kept when include is None
\* or names it, and when exclude_none does not drop it; its key is the alias
\* under by_alias; a nested object is encoded by its dict() called with the same
\* flags, with the include under the field's name (None below a set of names)
\* and without mode; a list is encoded item by item.
RECURSIVE pydantic_dict(_, _)
pydantic_dict(v, kw) ==
    IF v.t = "obj"
    THEN LET Kept(item) ==
                 /\ kw.has_include => item[1] \in kw.include
                 /\ ~(kw.exclude_none /\ item[2].t = "none")
             kept == SelectSeq(v.items, Kept)
             Key(name) == IF kw.by_alias THEN FieldOf(v.s, name).alias ELSE name
             nested == [kw EXCEPT !.has_include = FALSE, !.include = {}]
         IN PyDict([i \in 1..Len(kept) |->
                        <<Key(kept[i][1]), pydantic_dict(kept[i][2], nested)>>])
    ELSE IF v.t = "list"
         THEN PyList([i \in 1..Len(v.items) |-> pydantic_dict(v.items[i], kw)])
         ELSE v

\* BaseModel.dict(mode=mode), lines 63-65
BaseModel_dict(obj, mode) == pydantic_dict(obj, XmlTemplate(obj.s, mode))

\* What xmltodict writes for a value that is not a dict: str(v), and 'true' or
\* 'false' for a bool.
Text(v) ==
    CASE v.t = "none" -> "None"
      [] v.t = "bool" -> IF v.n = 1 THEN "true" ELSE "false"
      [] v.t = "int" -> ToString(v.n)
      [] OTHER -> v.s

\* xmltodict.unparse: the elements written for a key and its value, one for
\* each item of a list (none for an empty list), one for any other value; None
\* gives an empty element, a dict its '@' keys ('@href' is the only one) as
\* attributes and its other keys as child elements.
RECURSIVE emit(_, _), emit_items(_)
emit(key, value) ==
    LET One(v) ==
            IF v.t = "dict"
            THEN LET IsAttr(item) == item[1] = "@href"
                     IsChild(item) == item[1] # "@href"
                     attrs == SelectSeq(v.items, IsAttr)
                 IN Element(key,
                            [i \in 1..Len(attrs) |-> <<attrs[i][1], Text(attrs[i][2])>>],
                            "",
                            emit_items(SelectSeq(v.items, IsChild)))
            ELSE Element(key, <<>>, IF v.t = "none" THEN "" ELSE Text(v), <<>>)
    IN IF value.t = "list"
       THEN [i \in 1..Len(value.items) |-> One(value.items[i])]
       ELSE <<One(value)>>

emit_items(items) ==
    IF items = <<>> THEN <<>>
    ELSE emit(Head(items)[1], Head(items)[2]) \o emit_items(Tail(items))

\* to_xml(mode): xmltodict.unparse(self.xml_dict(mode=mode), full_document=False),
\* xml_dict being {class name: self.dict(mode=mode)} (lines 80 and 105).
to_xml(obj, mode) == emit(obj.s, BaseModel_dict(obj, mode))[1]

\* ------------------------------------------------------------------- from_xml
\* xmltodict.parse: what an element stands for. An element without attribute
\* and child is its text, None when it has none; any other element is a dict of
\* its attributes and of its children by tag, the children of one tag being one
\* value when there is one of them and a list when there are several.
RECURSIVE parse(_)
parse(e) ==
    IF e.attrs = <<>> /\ e.children = <<>>
    THEN IF e.text = "" THEN PyNone ELSE PyStr(e.text)
    ELSE LET n == Len(e.children)
             IsFirst(i) == \A j \in 1..(i - 1) : e.children[j].tag # e.children[i].tag
             firsts == SelectSeq([i \in 1..n |-> i], IsFirst)
             Value(i) ==
                 LET Same(c) == c.tag = e.children[i].tag
                     same == SelectSeq(e.children, Same)
                 IN IF Len(same) = 1 THEN parse(same[1])
                    ELSE PyList([k \in 1..Len(same) |-> parse(same[k])])
         IN PyDict([i \in 1..Len(e.attrs) |-> <<e.attrs[i][1], PyStr(e.attrs[i][2])>>]
                   \o [k \in 1..Len(firsts) |->
                          <<e.children[firsts[k]].tag, Value(firsts[k])>>]
                   \o IF e.text = "" THEN <<>> ELSE <<(<<"#text", PyStr(e.text)>>)>>)

\* What a call returns or raises.
Returned(v) == [raises |-> "none", value |-> v]

Fails(exc) == [raises |-> exc, value |-> PyNone]

\* The integers the documents spell out.
IntLiterals == (0..9) \cup (80..83) \cup Members("DeviceCategoryType")

\* The hexadecimal digits of the lfdi strings the objects carry.
HexDigits(text) == IF text = "0x222099d639e" THEN SampleLfdi ELSE <<0>>

\* str of a number given by its decimal digits
RECURSIVE DigitsText(_)
DigitsText(digits) ==
    IF digits = <<>> THEN "" ELSE ToString(Head(digits)) \o DigitsText(Tail(digits))

\* d[key] and `key in d` on a dict
HasKey(d, key) == \E i \in 1..Len(d.items) : d.items[i][1] = key

GetItem(d, key) == d.items[CHOOSE i \in 1..Len(d.items) : d.items[i][1] = key][2]

\* cls(**data), pydantic's validation of a model: data must be a mapping
\* (cls(**None) is a TypeError); each field takes the value under its alias or,
\* with allow_population_by_field_name, under its name, else its default; None
\* is a value of Optional fields only; an int, enum or bool is read from its
\* text, an enum must be a member, a model is built from a dict, a list is
\* validated item by item and anything that is not a list is refused; the
\* sfdi of an EndDevice then goes through calculate_sfdi (always=True), of
\* whose argument v only the truth value is read.
RECURSIVE construct(_, _), field_value(_, _)
construct(cls, data) ==
    IF data.t # "dict" THEN Fails("TypeError")
    ELSE LET fields == Fields(cls)
             Validated(f) ==
                 IF HasKey(data, f.alias) THEN field_value(f, GetItem(data, f.alias))
                 ELSE IF HasKey(data, f.name) THEN field_value(f, GetItem(data, f.name))
                 ELSE IF f.default = Required THEN Fails("ValidationError")
                 ELSE Returned(f.default)
             Sfdi(r) ==
                 LET lfdi == Validated(FieldOf(cls, "lfdi"))
                     v == IF r.value.t = "none" THEN NoString
                          ELSE IF r.value.s = "" THEN <<>> ELSE <<0>>
                     c == calculate_sfdi(v, HexDigits(lfdi.value.s))
                 IN IF r.raises # "none" \/ lfdi.raises # "none" \/ c.raises # "none"
                    THEN Fails("ValidationError")
                    ELSE IF c.value = v THEN r ELSE Returned(PyStr(DigitsText(c.value)))
             Result(f) ==
                 IF cls = "EndDevice" /\ f.name = "sfdi" THEN Sfdi(Validated(f))
                 ELSE Validated(f)
         IN IF \E i \in 1..Len(fields) : Result(fields[i]).raises # "none"
            THEN Fails("ValidationError")
            ELSE Returned(PyObj(cls, [i \in 1..Len(fields) |->
                                         <<fields[i].name, Result(fields[i]).value>>]))

field_value(f, v) ==
    LET IsNumber ==
            \/ v.t \in {"int", "bool"}
            \/ v.t = "str" /\ \E n \in IntLiterals : ToString(n) = v.s
        number == IF v.t = "str" THEN CHOOSE n \in IntLiterals : ToString(n) = v.s ELSE v.n
    IN CASE v.t = "none" -> IF f.optional THEN Returned(PyNone) ELSE Fails("ValidationError")
         [] v.t # "none" /\ f.type \in {"int", "float"} ->
                IF IsNumber THEN Returned(PyInt(number)) ELSE Fails("ValidationError")
         [] v.t # "none" /\ f.type = "enum" ->
                IF IsNumber /\ number \in Members(f.cls) THEN Returned(PyInt(number))
                ELSE Fails("ValidationError")
         [] v.t # "none" /\ f.type = "str" ->
                IF v.t = "str" THEN Returned(v)
                ELSE IF v.t = "int" THEN Returned(PyStr(ToString(v.n)))
                ELSE Fails("ValidationError")
         [] v.t # "none" /\ f.type = "bool" ->
                IF v.t = "bool" THEN Returned(v)
                ELSE IF v.t = "str" /\ v.s \in {"true", "false"}
                     THEN Returned(PyValue("bool", IF v.s = "true" THEN 1 ELSE 0, "", <<>>))
                     ELSE Fails("ValidationError")
         [] v.t # "none" /\ f.type = "model" ->
                IF v.t = "obj" /\ v.s = f.cls THEN Returned(v)
                ELSE IF v.t = "dict" THEN
                        (IF construct(f.cls, v).raises = "none" THEN construct(f.cls, v)
                         ELSE Fails("ValidationError"))
                ELSE Fails("ValidationError")
         [] v.t # "none" /\ f.type = "list" ->
                IF v.t = "list"
                   /\ \A i \in 1..Len(v.items) :
                        v.items[i].t = "dict" /\ construct(f.cls, v.items[i]).raises = "none"
                THEN Returned(PyList([i \in 1..Len(v.items) |->
                                         construct(f.cls, v.items[i]).value]))
                ELSE Fails("ValidationError")

\* cls.from_xml(document), line 92: cls(**xmltodict.parse(document)[cls.__name__])
BaseModel_from_xml(cls, doc) ==
    IF doc.tag # cls THEN Fails("KeyError") ELSE construct(cls, parse(doc))

\* The objects that are encoded: each is what its class builds from keyword
\* arguments given by field name.
ModelObjects ==
    LET Args(pairs) == PyDict(pairs)
        lfdi == <<"lfdi", PyStr("0x222099d639e")>>
        value == Args(<< <<"value", PyInt(5)>> >>)
        scaled == Args(<< <<"value", PyInt(5)>>, <<"multipler", PyInt(3)>> >>)
        capability == Args(<< <<"type_", PyInt(4)>> >>)
        rated == Args(<< <<"type_", PyInt(4)>>, <<"rtg_max_w", scaled>> >>)
        der == Args(<<>>)
        capable == Args(<< <<"der_capability", rated>> >>)
        link == Args(<< <<"href", PyStr("/edev/3/der")>> >>)
        information == Args(<<lfdi>>)
        point == Args(<< <<"meter_id", PyStr("NMI1")>> >>)
        Device(more) == Args(<< <<"device_category", PyInt(65536)>>, lfdi >> \o more)
        calls ==
            {<<"ValueWithMultiplier", value>>, <<"ValueWithMultiplier", scaled>>,
             <<"DERCapability", capability>>, <<"DERCapability", rated>>,
             <<"DER", der>>, <<"DER", capable>>,
             <<"Link", link>>,
             <<"DeviceInformation", information>>,
             <<"ConnectionPoint", point>>, <<"ConnectionPoint", Args(<<>>)>>,
             <<"EndDevice", Device(<<>>)>>,
             <<"EndDevice", Args(<< <<"device_category", PyInt(65536)>>,
                                    <<"lfdi", PyStr("0x0")>> >>)>>,
             <<"EndDevice", Device(<< <<"sfdi", PyStr("123412")>>,
                                      <<"der_list_link", link>> >>)>>,
             <<"EndDevice", Device(<< <<"der", PyList(<<capable>>)>> >>)>>,
             <<"EndDevice", Device(<< <<"der", PyList(<<capable, der>>)>>,
                                      <<"device_information", information>>,
                                      <<"connection_point", point>> >>)>>}
    IN {construct(c[1], c[2]).value : c \in {k \in calls : construct(k[1], k[2]).raises = "none"}}

\* cls.from_xml(x.to_xml(mode=mode)) for an object x of class cls.
RoundTrip ==
    /\ ModelIdle
    /\ \E x \in ModelObjects, mode \in Modes :
        LET xml == to_xml(x, mode)
            r == BaseModel_from_xml(x.s, xml)
        IN /\ model_op' = "to_xml"
           /\ model_obj' = x
           /\ arg_mode' = mode
           /\ document' = xml
           /\ decoded' = r.value
           /\ model_raised' = r.raises
    /\ UNCHANGED <<arg_lfdi, arg_sfdi, sfdi, arg_s, local_lfdi, arg_children, list_value>>
    /\ UNCHANGED <<flagVars, listDictVars>>
    /\ UNCHANGED <<op, pc, raised, log, syncVars, listVars, callVars, transportVars>>

\* The object is dropped: the models keep nothing from one call to the next.
Discard ==
    /\ ~ModelIdle
    /\ model_op' = "none"
    /\ model_raised' = "none"
    /\ arg_lfdi' = <<>>
    /\ arg_sfdi' = NoString
    /\ sfdi' = NoString
    /\ arg_s' = <<>>
    /\ local_lfdi' = NoString
    /\ arg_children' = <<>>
    /\ list_value' = <<>>
    /\ flag_members' = 0
    /\ flag_value' = 0
    /\ flag_result' = None
    /\ arg_kwargs' = NoKwargs
    /\ item_kwargs' = NoKwargs
    /\ list_dict' = "none"
    /\ model_obj' = PyNone
    /\ arg_mode' = "none"
    /\ document' = NoDocument
    /\ decoded' = PyNone
    /\ UNCHANGED <<op, pc, raised, log, syncVars, listVars, callVars, transportVars>>

ModelNext ==
    \/ NewEndDevice
    \/ GetLocalLfdiFromString
    \/ NewListWrapper
    \/ StrictIntFlagValidate
    \/ ListDict
    \/ RoundTrip
    \/ Discard

ModelSpec == Init /\ [][ModelNext]_vars

\* ===================================================================== claims
\* Reading the log.
Requests == [k \in 1..Len(log) |-> log[k].request]

Req(method, path) == Request(method, path, <<>>)

\* The last '/'-delimited segment of the location header of an exchange's response.
LocationId(x) ==
    LET location == HeaderValue(x.response, "location") IN location[Len(location)]

IdStrings == {ToString(i) : i \in ServerIds}

\* The response gives a resource id the way a well-behaved server does.
AnswersCreated(x) ==
    /\ x.response.status_code = 201
    /\ HasHeader(x.response, "location")
    /\ LocationId(x) \in IdStrings

IsDerPost(x) == x.request.method = "POST" /\ Len(x.request.path) = 3

IsNested(x) == Len(x.request.path) >= 3

IsGet(x) == x.request.method = "GET"

DerPosts == SelectSeq(log, IsDerPost)

InSync == op = "sync_end_device"

\* The GET answered by a 200 whose body is no EndDevice document.
UndecodableGet(x) ==
    IsGet(x) /\ x.response.status_code = 200 /\ x.response.content.root # "EndDevice"

\* ------------------------------------------------------------------------ C1
\* The requests of a full registration: e is the device id segment, d the
\* sequence of DER id segments, cp whether a connection point is present.
RECURSIVE DerRequests(_, _, _)
DerRequests(e, d, k) ==
    IF k > Len(d) THEN <<>>
    ELSE <<Req("POST", <<"edev", e, "der">>),
           Req("PUT", <<"edev", e, "der", d[k], "dercap">>)>> \o DerRequests(e, d, k + 1)

RegistrationRequests(e, d, cp) ==
    <<Req("POST", <<"edev">>), Req("GET", <<"edev", e>>), Req("PUT", <<"edev", e, "di">>)>>
    \o DerRequests(e, d, 1)
    \o (IF cp THEN <<Req("PUT", <<"edev", e, "cp">>)>> ELSE <<>>)

\* The case of C1: no id known, create_nested, a device with DeviceInformation
\* and a DER list whose every DER has a DERCapability, and a server that has
\* answered every POST with 201 and a location id and the GET with a device
\* document or a status other than 200.
C1_Case ==
    /\ InSync
    /\ arg_edev_id = None
    /\ create_nested
    /\ end_device.device_information
    /\ end_device.der_set
    /\ \A k \in 1..Len(end_device.der) : end_device.der[k].der_capability
    /\ \A k \in 1..Len(log) :
        /\ log[k].request.method = "POST" => AnswersCreated(log[k])
        /\ ~UndecodableGet(log[k])

\* The plan of the run as far as the server's ids are known: the id of a DER
\* not yet posted is "?".
C1_Plan ==
    LET e == IF Len(log) >= 1 THEN LocationId(log[1]) ELSE "?"
        d == [k \in 1..Len(end_device.der) |->
                 IF k <= Len(DerPosts) THEN LocationId(DerPosts[k]) ELSE "?"]
    IN RegistrationRequests(e, d, end_device.connection_point)

\* C1: in the case above sync_end_device does not raise, what it has sent so
\* far is POST /edev, GET /edev/e, PUT /edev/e/di, then for each DER in list order
\* POST /edev/e/der and PUT /edev/e/der/d_i/dercap, then PUT /edev/e/cp if a
\* connection point is present, and when it returns it has sent exactly that.
C1_RegistrationSequence ==
    C1_Case =>
        /\ pc # "raised"
        /\ Len(log) <= Len(C1_Plan)
        /\ Requests = SubSeq(C1_Plan, 1, Len(log))
        /\ pc = "done" <=> Len(log) = Len(C1_Plan)

\* A full registration of a device with two DERs that got different ids, and a
\* connection point, has returned.
C1_Witness ==
    /\ C1_Case
    /\ pc = "done"
    /\ Len(end_device.der) >= 2
    /\ end_device.connection_point
    /\ LocationId(DerPosts[1]) # LocationId(DerPosts[2])
    /\ Requests[5] = Req("PUT", <<"edev", LocationId(log[1]), "der", LocationId(log[4]), "dercap">>)

\* ------------------------------------------------------------------------ C2
\* C2: when no id was supplied and POST /edev is answered with a status other
\* than 201, sync_end_device raises and that POST stays its only request.
C2_CreateFailureAborts ==
    (/\ InSync
     /\ arg_edev_id = None
     /\ Len(log) >= 1
     /\ log[1].response.status_code # 201)
    => /\ log[1].request = Req("POST", <<"edev">>)
       /\ Len(log) = 1
       /\ pc = "raised"
       /\ raised = "ValueError"

\* POST /edev was answered 200 with a usable location header, and the call raised.
C2_Witness ==
    /\ InSync
    /\ Len(log) = 1
    /\ log[1].request = Req("POST", <<"edev">>)
    /\ log[1].response.status_code = 200
    /\ HasHeader(log[1].response, "location")
    /\ LocationId(log[1]) \in IdStrings
    /\ pc = "raised"

\* ------------------------------------------------------------------------ C3
\* C3: with create_nested, for a device that has DeviceInformation and a DER
\* list, a nested request answered with a status above 201 does not make
\* sync_end_device raise, with or without a location header in the response.
C3_NestedFailureOnlyLogged ==
    (/\ InSync
     /\ create_nested
     /\ end_device.device_information
     /\ end_device.der_set
     /\ Len(log) >= 1
     /\ IsNested(log[Len(log)])
     /\ log[Len(log)].response.status_code > 201)
    => pc # "raised"

\* ------------------------------------------------------------------------ C4
\* C4: the edev_id segment of the GET and of every nested request is the id the
\* caller supplied or the last location segment of this run's POST /edev
\* response, and the der_id segment of a PUT .../dercap is the last location
\* segment of the response to the POST /edev/{edev_id}/der sent just before it.
C4_IdsComeFromServer ==
    InSync =>
        \A k \in 1..Len(log) :
            LET path == log[k].request.path
            IN /\ Len(path) >= 2 =>
                    path[2] = IF arg_edev_id # None THEN ToString(arg_edev_id)
                              ELSE LocationId(log[1])
               /\ Len(path) = 5 =>
                    /\ k > 1
                    /\ log[k - 1].request = Req("POST", <<"edev", path[2], "der">>)
                    /\ HasHeader(log[k - 1].response, "location")
                    /\ path[4] = LocationId(log[k - 1])

\* Two DERs were posted, got ids that differ from each other, the first of them
\* differing from the device id, and both capabilities were put.
C4_Witness ==
    /\ InSync
    /\ pc = "done"
    /\ Len(DerPosts) = 2
    /\ LocationId(DerPosts[1]) # LocationId(DerPosts[2])
    /\ \E k \in 1..Len(log) :
        /\ Len(log[k].request.path) = 5
        /\ log[k].request.path[4] # log[k].request.path[2]
    /\ Cardinality({k \in 1..Len(log) : Len(log[k].request.path) = 5}) = 2

\* ------------------------------------------------------------------------ C5
\* C5: called with a known edev_id, sync_end_device never sends POST /edev, its
\* first request is GET /edev/{edev_id}, and every request carries that id.
C5_KnownIdNeverCreates ==
    (InSync /\ arg_edev_id # None) =>
        /\ edev_id = arg_edev_id
        /\ pc # "sync_create"
        /\ \A k \in 1..Len(log) :
            /\ log[k].request # Req("POST", <<"edev">>)
            /\ Len(log[k].request.path) >= 2
            /\ log[k].request.path[2] = ToString(arg_edev_id)
        /\ Len(log) >= 1 => log[1].request = Req("GET", <<"edev", ToString(arg_edev_id)>>)

\* A call with a known id has sent the GET and nested requests, and returned.
C5_Witness ==
    /\ InSync
    /\ arg_edev_id = 5
    /\ pc = "done"
    /\ Len(log) >= 4
    /\ Len(DerPosts) >= 1

\* ------------------------------------------------------------------------ C6
\* The position of the GET in the log of a sync_end_device call.
GetIndex == IF arg_edev_id = None THEN 2 ELSE 1

IntStrings == {ToString(i) : i \in IdRange}

DerPostsUpTo(k) == Cardinality({j \in 1..k : IsDerPost(log[j])})

Sends(req) == [kind |-> "send", request |-> req]

Returns == [kind |-> "return", request |-> Req("", <<>>)]

Raises == [kind |-> "raise", request |-> Req("", <<>>)]

\* What is left to do once n DERs are dealt with.
RestOfNested(e, n) ==
    IF n < Len(end_device.der) THEN Sends(Req("POST", <<"edev", e, "der">>))
    ELSE IF end_device.connection_point THEN Sends(Req("PUT", <<"edev", e, "cp">>))
    ELSE Returns

\* What sync_end_device does after the k-th exchange (the GET or a nested
\* one), told from the arguments and from the nested exchanges alone: the
\* response to the GET is not read.
FollowsNested(k) ==
    LET x == log[k]
        e == x.request.path[2]
        n == DerPostsUpTo(k)
    IN IF IsGet(x)
       THEN IF ~create_nested THEN Returns
            ELSE IF ~end_device.device_information THEN Raises
            ELSE Sends(Req("PUT", <<"edev", e, "di">>))
       ELSE IF x.request.path = <<"edev", e, "di">>
       THEN IF end_device.der_set THEN RestOfNested(e, 0) ELSE Raises
       ELSE IF IsDerPost(x)
       THEN IF ~(HasHeader(x.response, "location") /\ LocationId(x) \in IntStrings) THEN Raises
            ELSE IF end_device.der[n].der_capability
                 THEN Sends(Req("PUT", <<"edev", e, "der", LocationId(x), "dercap">>))
                 ELSE RestOfNested(e, n)
       ELSE IF Len(x.request.path) = 5 THEN RestOfNested(e, n)
       ELSE Returns

\* The same, with the one way the GET is read: a 200 whose body does not decode
\* raises.
FollowsDecoded(k) == IF UndecodableGet(log[k]) THEN Raises ELSE FollowsNested(k)

\* The log agrees with what `follows` tells for every exchange from the GET on.
RunFollows(follows(_)) ==
    \A k \in GetIndex..Len(log) :
        IF k < Len(log) THEN follows(k) = Sends(log[k + 1].request)
        ELSE /\ pc = "done" <=> follows(k).kind = "return"
             /\ pc = "raised" <=> follows(k).kind = "raise"

\* Exactly one GET /edev/{edev_id}, sent once the id is known and before any
\* nested request.
OneGetAfterIdKnown ==
    /\ \A k \in 1..Len(log) : IsGet(log[k]) <=> k = GetIndex
    /\ \A k \in 1..Len(log) : IsNested(log[k]) => k > GetIndex
    /\ Len(log) >= GetIndex => log[GetIndex].request = Req("GET", <<"edev", ToString(edev_id)>>)
    /\ (edev_id # None /\ pc # "sync_get") => Len(log) >= GetIndex

\* C6 as claimed: one GET at its place, and whatever the GET is answered with,
\* what follows is what the arguments and the nested exchanges tell.
C6_GetOutcomeIgnored ==
    InSync => (OneGetAfterIdKnown /\ RunFollows(FollowsNested))

\* C6 as amended: one GET at its place; a 200 whose body does not decode to an
\* EndDevice makes sync_end_device raise right after the GET; any other answer
\* to the GET, 200 or not, changes neither whether sync_end_device raises nor
\* the nested requests that follow.
C6_GetStatusIgnored ==
    InSync => (OneGetAfterIdKnown /\ RunFollows(FollowsDecoded))

\* The GET was answered 404, the nested requests followed and the call returned.
C6_Witness ==
    /\ InSync
    /\ pc = "done"
    /\ Len(log) >= GetIndex + 3
    /\ log[GetIndex].response.status_code = 404

\* ------------------------------------------------------------------------ C7
InPaged == op = "get_paged_end_devices"

\* The EndDevice children of the response of an exchange.
Children(x) == x.response.content.children

\* C7: get_paged_end_devices sends at most one GET per device the server holds
\* plus one, never goes on after a response without EndDevice child, has ended
\* exactly when its last response has none, and every listing that is under way
\* does end.
C7_Bounded ==
    InPaged =>
        /\ Len(log) <= Len(server_devices) + 1
        /\ \A k \in 1..(Len(log) - 1) : Children(log[k]) # <<>>
        /\ Ended <=> (Len(log) >= 1 /\ Children(log[Len(log)]) = <<>>)

C7_PagingTerminates == [](C7_Bounded) /\ ((InPaged /\ ~Ended) ~> Ended)

\* A listing has ended after two pages with devices and one without.
C7_Witness ==
    /\ InPaged
    /\ pc = "done"
    /\ Len(log) = 3
    /\ ResponseOk(log[3].response)
    /\ Len(Children(log[1])) > Len(Children(log[2]))

\* ------------------------------------------------------------------------ C8
RECURSIVE Flatten(_)
Flatten(pages) == IF pages = <<>> THEN <<>> ELSE Head(pages) \o Flatten(Tail(pages))

IsNotOwnDevice(d) == d.lfdi # SelfLfdi

WithoutOwnDevice(devices) == SelectSeq(devices, IsNotOwnDevice)

\* The pages with devices the server has returned, in order.
ReturnedPages ==
    LET withDevices == {k \in 1..Len(log) : Children(log[k]) # <<>>}
    IN [k \in 1..Cardinality(withDevices) |-> Children(log[k])]

\* The pages the generator has been resumed past: all that were returned, but
\* the one it is about to yield.
TakenPages ==
    IF pc = "paged_yield" THEN SubSeq(ReturnedPages, 1, Len(ReturnedPages) - 1)
    ELSE ReturnedPages

\* C8: the pages yielded, concatenated in order, are the pages with devices the
\* server returned, concatenated, less the devices with the interface's own lfdi
\* when include_self is False and as they are when it is True; page by page the
\* same holds; with include_self False no yielded page holds the own device.
C8_YieldedIsReturned ==
    InPaged =>
        /\ Len(yielded) = Len(TakenPages)
        /\ Flatten(yielded) = IF include_self THEN Flatten(TakenPages)
                              ELSE WithoutOwnDevice(Flatten(TakenPages))
        /\ \A k \in 1..Len(yielded) :
            /\ yielded[k] = IF include_self THEN TakenPages[k]
                            ELSE WithoutOwnDevice(TakenPages[k])
            /\ ~include_self => \A j \in 1..Len(yielded[k]) : yielded[k][j].lfdi # SelfLfdi

\* A listing with include_self False has ended after yielding two pages, the
\* first of which lost the own device to the filter and kept another device.
C8_Witness ==
    /\ InPaged
    /\ pc = "done"
    /\ ~include_self
    /\ Len(yielded) = 2
    /\ Len(yielded[1]) = 1
    /\ Len(Children(log[1])) = 2
    /\ yielded[2] # <<>>

\* ------------------------------------------------------------------------ C9
RECURSIVE ReturnedBefore(_)
ReturnedBefore(k) == IF k <= 1 THEN 0 ELSE ReturnedBefore(k - 1) + Len(Children(log[k - 1]))

\* C9: the k-th GET asks for s = the initial start plus the number of devices the
\* server returned in the k-1 pages before, counted before the filter, and for
\* l = page_size.
C9_StartCountsReturned ==
    InPaged =>
        \A k \in 1..Len(log) :
            log[k].request = Request("GET", <<"edev">>, <<start0 + ReturnedBefore(k), page_size>>)

\* With include_self False a first page of two devices, the own one among them,
\* was followed by a second GET two further on.
C9_Witness ==
    /\ InPaged
    /\ ~include_self
    /\ Len(log) >= 2
    /\ Len(Children(log[1])) = 2
    /\ Len(yielded) >= 1
    /\ Len(yielded[1]) = 1
    /\ log[2].request.query[1] = start0 + 2

\* ----------------------------------------------------------------------- C10
\* C10: get_end_devices, on a successful response with an EndDeviceList element,
\* does not raise; it returns None when the element has no EndDevice child and
\* else an EndDeviceList holding every EndDevice child.
C10_EmptyListIsNone ==
    (/\ op = "get_end_devices"
     /\ Len(log) = 1
     /\ ResponseOk(log[1].response)
     /\ log[1].response.content.root = "EndDeviceList")
    => /\ pc = "done"
       /\ raised = "none"
       /\ result = IF Children(log[1]) = <<>> THEN NoResult
                   ELSE [kind |-> "list", end_device |-> Children(log[1])]

\* ----------------------------------------------------------------------- C11
\* C11: get_end_device(edev_id) sends one request, GET /edev/{edev_id}; answered
\* with a status other than 200 it returns None and does not raise; it returns
\* an EndDevice only when the status is 200, and only then does it decode the
\* body (the one way it raises).
C11_OnlyOkIsDecoded ==
    (op = "get_end_device" /\ Len(log) >= 1) =>
        /\ Len(log) = 1
        /\ Ended
        /\ log[1].request = Req("GET", <<"edev", ToString(arg_edev_id)>>)
        /\ log[1].response.status_code # 200 =>
            (pc = "done" /\ raised = "none" /\ result = NoResult)
        /\ result.kind = "device" => log[1].response.status_code = 200
        /\ pc = "raised" => log[1].response.status_code = 200

\* A GET answered 204 with a device document returned None, not the device.
C11_Witness ==
    /\ op = "get_end_device"
    /\ pc = "done"
    /\ Len(log) = 1
    /\ log[1].response.status_code = 204
    /\ log[1].response.content.root = "EndDevice"
    /\ result = NoResult

\* ----------------------------------------------------------------------- C12
\* C12: trailing_resource_id_from_response returns the integer written in the
\* last '/'-delimited segment of the location header; for a response without
\* location header it raises, whatever the status; every id it returns is read
\* from a location header.
C12_IdIsLastLocationSegment ==
    (op = "trailing_resource_id_from_response" /\ Ended) =>
        /\ ~HasHeader(arg_response, "location") =>
            (pc = "raised" /\ raised = "ValueError" /\ resource_id = None)
        /\ (HasHeader(arg_response, "location")
            /\ LastSegment(HeaderValue(arg_response, "location")) \in {"42", "1"}) => pc = "done"
        /\ pc = "done" =>
            /\ HasHeader(arg_response, "location")
            /\ ToString(resource_id) = LastSegment(HeaderValue(arg_response, "location"))

\* The response with location /edev/42 gave the id 42.
C12_Witness ==
    /\ op = "trailing_resource_id_from_response"
    /\ pc = "done"
    /\ HeaderValue(arg_response, "location") = <<"edev", "42">>
    /\ resource_id = 42

\* ----------------------------------------------------------------------- C13
\* C13: connect() on a transport that is already connected leaves the Session
\* object in place, with its headers, certificate and cookies.
C13_ConnectIsIdempotent ==
    [][(is_connected /\ Connect) =>
         UNCHANGED <<session, session_headers, session_cert, session_cookies>>]_vars

\* ----------------------------------------------------------------------- C14
\* The top 36 bits of the lfdi an EndDevice was built from, in decimal digits.
TopDigits == str(SubSeq(int16(arg_lfdi), 1, 36))

\* C14: built from an lfdi of bit length at least 36 and no sfdi, the EndDevice
\* has for sfdi the decimal digits of T = L >> (b - 36) followed by exactly one
\* digit, which is 10 - (sum of the digits of T mod 10).
C14_SfdiIsTopBitsAndCheckDigit ==
    (/\ model_op = "EndDevice"
     /\ arg_sfdi = NoString
     /\ bit_length(int16(arg_lfdi)) >= 36)
    => /\ model_raised = "none"
       /\ Len(sfdi) = Len(TopDigits) + 1
       /\ SubSeq(sfdi, 1, Len(TopDigits)) = TopDigits
       /\ sfdi[Len(sfdi)] \in 0..9
       /\ sfdi[Len(sfdi)] = 10 - (Sum(TopDigits) % 10)

\* ----------------------------------------------------------------------- C15
\* C15 as claimed: whatever sfdi is supplied together with an lfdi, the
\* EndDevice is built and its sfdi is the supplied value.
C15_SuppliedSfdiIsKept ==
    (model_op = "EndDevice" /\ arg_sfdi # NoString) =>
        (model_raised = "none" /\ sfdi = arg_sfdi)

\* C15 as amended: a supplied sfdi that is not the empty string is kept, for
\* every lfdi; the empty string counts as no sfdi, so with an lfdi other than 0
\* it is replaced by the derived sfdi, or the construction fails.
C15_NonEmptySfdiIsKept ==
    model_op = "EndDevice" =>
        /\ (arg_sfdi # NoString /\ arg_sfdi # <<>>) =>
            (model_raised = "none" /\ sfdi = arg_sfdi)
        /\ (arg_sfdi = <<>> /\ int16(arg_lfdi) # <<>>) =>
            (model_raised # "none" \/ (sfdi # <<>> /\ sfdi # NoString))

\* The sfdi "123" was kept although the lfdi has 36 bits and derives another.
C15_Witness ==
    /\ model_op = "EndDevice"
    /\ arg_sfdi = <<1, 2, 3>>
    /\ bit_length(int16(arg_lfdi)) = 36
    /\ model_raised = "none"
    /\ sfdi = <<1, 2, 3>>
    /\ calculate_sfdi(NoString, arg_lfdi).value # <<1, 2, 3>>

\* ----------------------------------------------------------------------- C16
\* C16: built from an lfdi of bit length below 36, 0 included, and no sfdi, the
\* construction of an EndDevice fails; no EndDevice without sfdi comes out.
C16_ShortLfdiFails ==
    (/\ model_op = "EndDevice"
     /\ arg_sfdi = NoString
     /\ bit_length(int16(arg_lfdi)) < 36)
    => (model_raised # "none" /\ sfdi = NoString)

\* ----------------------------------------------------------------------- C17
\* C17: for a string whose hex-encoded UTF-8 bytes form an integer of bit length
\* below 36, get_local_lfdi_from_string raises LFDIInsufficientLengthError and
\* nothing else; for every other string it returns the hex encoding.
C17_ShortStringRaisesNamedError ==
    (model_op = "get_local_lfdi_from_string" /\ arg_s # <<>>) =>
        IF bit_length(int16(hex(encode(arg_s)))) < 36
        THEN model_raised = "LFDIInsufficientLengthError"
        ELSE model_raised = "none" /\ local_lfdi = hex(encode(arg_s))

InInterfaceTable(r) ==
    LET p == r.path
        id(k) == p[k] \in IntStrings
    IN \/ r.method = "GET" /\ p = <<"edev">> /\ Len(r.query) = 2
       \/ r.method = "GET" /\ Len(p) = 2 /\ p[1] = "edev" /\ id(2) /\ r.query = <<>>
       \/ r.method = "POST" /\ p = <<"edev">> /\ r.query = <<>>
       \/ r.method = "PUT" /\ Len(p) = 2 /\ p[1] = "edev" /\ id(2)
       \/ r.method = "PUT" /\ Len(p) = 3 /\ p[1] = "edev" /\ id(2) /\ p[3] = "di"
       \/ r.method = "POST" /\ Len(p) = 3 /\ p[1] = "edev" /\ id(2) /\ p[3] = "der"
       \/ r.method = "PUT" /\ Len(p) = 5 /\ p[1] = "edev" /\ id(2) /\ p[3] = "der"
                           /\ id(4) /\ p[5] = "dercap"
       \/ r.method = "PUT" /\ Len(p) = 3 /\ p[1] = "edev" /\ id(2) /\ p[3] = "cp"
       \/ r.method = "POST" /\ p = <<"mup">>
       \/ r.method = "POST" /\ Len(p) = 2 /\ p[1] = "mup" /\ id(2)

\* C19: every request an operation of the interface has sent is a GET, POST or
\* PUT on one of the ten rows of the interface table; none is a DELETE.
C19_OnlyTableRequests ==
    \A k \in 1..Len(log) :
        /\ log[k].request.method \in {"GET", "POST", "PUT"}
        /\ InInterfaceTable(log[k].request)

\* A meter reading was posted to /mup/5.
C19_Witness ==
    /\ op = "create_mirror_meter_reading"
    /\ pc = "done"
    /\ log[1].request = Req("POST", <<"mup", "5">>)

\* ----------------------------------------------------------------------- C20
\* C20: the list field of an EndDeviceList or MirrorUsagePointList built from a
\* decoded document is the sequence of the document's children in document
\* order: one element for a single child, N elements for N > 1 children.
C20_ListFieldIsSequence ==
    model_op \in ListWrappers =>
        /\ DOMAIN list_value = 1..Len(arg_children)
        /\ \A k \in 1..Len(arg_children) : list_value[k] = arg_children[k]

\* A MirrorUsagePointList was built from a document with a single child.
C20_Witness ==
    /\ model_op = "MirrorUsagePointList"
    /\ Len(arg_children) = 1
    /\ list_value = <<arg_children[1]>>

\* ----------------------------------------------------------------------- C24
\* C24: the EndDeviceList get_end_devices returns holds the interface's own
\* device only when include_self is True: with include_self False it is the
\* page without the own device, with include_self True the page as it came.
C24_IncludeSelfHonoured ==
    (op = "get_end_devices" /\ pc = "done" /\ Truthy(result)) =>
        result.end_device = IF include_self THEN Children(log[1])
                            ELSE WithoutOwnDevice(Children(log[1]))

\* ----------------------------------------------------------------------- C25
IsDerCapabilityPut(x) == x.request.method = "PUT" /\ Len(x.request.path) = 5

IsConnectionPointPut(x) ==
    x.request.method = "PUT" /\ Len(x.request.path) = 3 /\ x.request.path[3] = "cp"

C27_AbsentNestedIsSkipped ==
    (/\ InSync
     /\ create_nested
     /\ \A k \in 1..Len(log) :
         /\ log[k].request.method = "POST" => AnswersCreated(log[k])
         /\ ~UndecodableGet(log[k]))
    => pc # "raised"

\* ----------------------------------------------------------------------- C28
\* C28: every PUT .../dercap follows a POST .../der that was answered with a
\* status not above 201.
C28_CapabilityOnlyUnderCreatedDer ==
    InSync =>
        \A k \in 2..Len(log) :
            IsDerCapabilityPut(log[k]) => log[k - 1].response.status_code <= 201

\* ----------------------------------------------------------------------- C29
\* C29: a device-list GET answered with an error status makes get_end_devices
\* and get_paged_end_devices end with an error, not with the None of an empty
\* page and not as a listing that is complete.
C29_FailedListIsReported ==
    (/\ op \in {"get_end_devices", "get_paged_end_devices"}
     /\ Ended
     /\ Len(log) >= 1
     /\ log[Len(log)].response.status_code >= 400)
    => pc = "raised"


\* ----------------------------------------------------------------------- C26
\* C26: for a flag type with n >= 1 members 1, 2, ..., 2^(n-1) the bound
\* validate computes is 2^n - 1, an integer v is accepted (returned as it is)
\* exactly when 0 <= v <= 2^n - 1, and every other integer gets a ValueError.
C26_AcceptsExactlyTheFlagRange ==
    model_op = "validate" =>
        /\ max_value(flag_members) = 2 ^ flag_members - 1
        /\ IF 0 <= flag_value /\ flag_value <= 2 ^ flag_members - 1
           THEN model_raised = "none" /\ flag_result = flag_value
           ELSE model_raised = "ValueError"

\* RoleFlagsType (seven members): 127 was accepted.
C26_Witness ==
    /\ model_op = "validate"
    /\ flag_members = 7
    /\ flag_value = 127
    /\ model_raised = "none"
    /\ flag_result = 127


\* ----------------------------------------------------------------------- C21
\* C21: when a list wrapper is encoded with an include or an exclude that is a
\* mapping keyed by the name of the list field, each item's dict gets exactly
\* the value stored under that key, for include as for exclude, and never the
\* mapping of the wrapper itself.
C21_ItemsGetTheValueUnderTheKey ==
    (model_op = "PydanticList.dict" /\ list_dict = "mapping") =>
        /\ arg_kwargs.include.kind = "dict" =>
            /\ item_kwargs.include = DictGet(arg_kwargs.include, list_field)
            /\ item_kwargs.include # arg_kwargs.include
        /\ arg_kwargs.exclude.kind = "dict" =>
            /\ item_kwargs.exclude = DictGet(arg_kwargs.exclude, list_field)
            /\ item_kwargs.exclude # arg_kwargs.exclude


\* ----------------------------------------------------------------------- C22
\* What to_xml wrote for the field of this name, as the mapping it was written from.
Emitted(name) ==
    LET kw == XmlTemplate(model_obj.s, arg_mode)
        key == IF kw.by_alias THEN FieldOf(model_obj.s, name).alias ELSE name
        d == BaseModel_dict(model_obj, arg_mode)
    IN IF HasKey(d, key) THEN GetItem(d, key) ELSE Required

\* C22: in what to_xml(mode) writes, every nested object that is written (an
\* object held by a field, or each object of a list held by a field) is
\* encoded as its own class encodes it in that mode.
C22_NestedObjectsFollowTheMode ==
    model_op = "to_xml" =>
        \A i \in 1..Len(model_obj.items) :
            LET name == model_obj.items[i][1]
                v == model_obj.items[i][2]
            IN Emitted(name) # Required =>
                /\ v.t = "obj" => Emitted(name) = BaseModel_dict(v, arg_mode)
                /\ v.t = "list" =>
                    Emitted(name) = PyList([k \in 1..Len(v.items) |->
                                               BaseModel_dict(v.items[k], arg_mode)])

\* ----------------------------------------------------------------------- C23
\* C23: from_xml(to_xml(x, mode)) succeeds, and every field the mode includes
\* has in the decoded object the value it has in x.
C23_RoundTripKeepsIncludedFields ==
    model_op = "to_xml" =>
        /\ model_raised = "none"
        /\ decoded.s = model_obj.s
        /\ \A i \in 1..Len(model_obj.items) :
            LET kw == XmlTemplate(model_obj.s, arg_mode)
            IN (kw.has_include => model_obj.items[i][1] \in kw.include) =>
                    decoded.items[i] = model_obj.items[i]

\* ----------------------------------------------------------------------- C30
FieldNames(cls) == {Fields(cls)[i].name : i \in 1..Len(Fields(cls))}

\* C30: every name in the include set of the mode is the name of a field the
\* class declares, and the field of that name is written by to_xml.
C30_IncludedNamesAreFields ==
    model_op = "to_xml" =>
        \A name \in XmlTemplate(model_obj.s, arg_mode).include :
            /\ name \in FieldNames(model_obj.s)
            /\ Emitted(name) # Required

====
